---------------------------- MODULE Spec2Model ----------------------------
(***************************************************************************)
(* A model of the codegen crate: the indentation-tracking Formatter, the   *)
(* Fields shape, the TypeDef header, Struct rendering and the Scope's      *)
(* import table.                                                           *)
(*                                                                         *)
(* Text is a sequence of tokens.  A token is either the newline "\n" or a  *)
(* non-empty string holding no newline; the Rust string is the tokens put  *)
(* together.  Every literal of the source is cut into tokens at its        *)
(* newlines and at the places where write! interpolates an argument.       *)
(***************************************************************************)
EXTENDS Integers, Sequences, FiniteSets, TLC

VARIABLES
    fmt,      \* the Formatter: dst, spaces, indent
    scopes,   \* the indent/block calls whose body is running, innermost last
    run,      \* the writes made since the last scope change
    last,     \* the last Formatter operation: what it was called with
    err,      \* a body has returned Err and the error is on its way up
    budget,   \* how much of the bounds the Formatter run has used
    fields,   \* a Fields value
    flast,    \* the last Fields operation and how it ended
    pushed,   \* the elements of the pushes on fields that returned
    td,       \* a struct, enum or trait header under construction
    st,       \* a Struct under construction
    module,   \* a Module and its scope
    mlog,     \* the import calls made on module
    node,     \* a value or a tree of nodes under construction
    hist      \* what the calls on node were and how they ended

vars == <<fmt, scopes, run, last, err, budget, fields, flast, pushed, td, st,
          module, mlog, node, hist>>

fmtVars == <<fmt, scopes, run, last, err, budget>>
fieldsVars == <<fields, flast, pushed>>
moduleVars == <<module, mlog>>
nodeVars == <<node, hist>>

---------------------------------------------------------------------------
(* Bounds                                                                  *)

MaxChars == 2
MaxEnters == 2

---------------------------------------------------------------------------
(* Text                                                                    *)

NL == "\n"

RECURSIVE SeqsUpTo(_, _)
SeqsUpTo(S, n) ==
    IF n = 0 THEN {<<>>}
    ELSE LET shorter == SeqsUpTo(S, n - 1)
         IN  shorter \cup {Append(s, x) : s \in shorter, x \in S}

\* The statements of a body run one after the other, each to completion:
\* the steps are evaluated in the order given.
InOrder(steps) == steps # <<>>

RECURSIVE Concat(_)
Concat(ss) == IF ss = <<>> THEN <<>> ELSE Head(ss) \o Concat(Tail(ss))

RECURSIVE Spaces(_)
Spaces(n) == IF n <= 0 THEN <<>> ELSE <<" ">> \o Spaces(n - 1)

\* A line less the spaces it starts with.
RECURSIVE Unindented(_)
Unindented(line) ==
    IF line # <<>> /\ line[1] = " " THEN Unindented(Tail(line)) ELSE line

\* The index of the first newline of s, 0 when it has none.
FirstNL(s) ==
    IF \E i \in 1..Len(s) : s[i] = NL
    THEN CHOOSE i \in 1..Len(s) : s[i] = NL /\ \A j \in 1..(i - 1) : s[j] # NL
    ELSE 0

\* A line less the carriage return that stood right before its newline,
\* whether the text holds it as a token of its own or at the end of one.
StripCR(line) ==
    IF line = <<>> THEN line
    ELSE LET t == line[Len(line)]
             rest == SubSeq(line, 1, Len(line) - 1)
         IN  IF t = "\r" THEN rest
             ELSE IF Len(t) > 0 /\ SubSeq(t, Len(t), Len(t)) = "\r"
             THEN Append(rest, SubSeq(t, 1, Len(t) - 1))
             ELSE line

\* str::lines: the text cut at its newlines, the newlines dropped, and with
\* them a carriage return right before one; a final newline ends the last
\* line and opens no empty one; a carriage return with no newline after it
\* stays.
RECURSIVE Lines(_)
Lines(s) ==
    IF s = <<>> THEN <<>>
    ELSE LET k == FirstNL(s)
         IN  IF k = 0 THEN <<s>>
             ELSE <<StripCR(SubSeq(s, 1, k - 1))>>
                  \o Lines(SubSeq(s, k + 1, Len(s)))

\* The string that a text spells, its tokens one after the other.
RECURSIVE Str(_)
Str(text) ==
    IF text = <<>> THEN ""
    ELSE IF Len(text) = 1 THEN text[1]
    ELSE LET half == Len(text) \div 2
         IN  Str(SubSeq(text, 1, half)) \o Str(SubSeq(text, half + 1, Len(text)))

\* str::starts_with and str::ends_with, on the characters of a text.
StartsWith(s, p) == Len(Str(s)) >= Len(p) /\ SubSeq(Str(s), 1, Len(p)) = p

EndsWith(s, p) ==
    Len(Str(s)) >= Len(p)
    /\ SubSeq(Str(s), Len(Str(s)) - Len(p) + 1, Len(Str(s))) = p

---------------------------------------------------------------------------
(* Formatter (formatter.rs)                                                *)

DEFAULT_INDENT == 4

FormatterNew(dst) == [dst |-> dst, spaces |-> 0, indent |-> DEFAULT_INDENT]

is_start_of_line(f) == f.dst = <<>> \/ f.dst[Len(f.dst)] = NL

push_spaces(f) == [f EXCEPT !.dst = @ \o Spaces(f.spaces)]

\* Whether the first line of a write is indented: the mutant indents it
\* even when the buffer is in the middle of a line.
FirstShouldIndentAlways(f) == TRUE

FirstShouldIndent(f) == is_start_of_line(f)

\* Whether a line gets the indentation: the mutant forgets that an empty
\* line gets none.
DoIndentEmptyToo(should_indent, line) == should_indent

DoIndent(should_indent, line) ==
    should_indent /\ line # <<>> /\ line[1] # NL

\* The loop of write_str over the lines from the i-th on.
RECURSIVE WriteLines(_, _, _, _)
WriteLines(f, ls, i, should_indent) ==
    IF i > Len(ls) THEN f
    ELSE LET f1 == IF i # 1 THEN [f EXCEPT !.dst = Append(@, NL)] ELSE f
             f2 == IF DoIndent(should_indent, ls[i]) THEN push_spaces(f1)
                   ELSE f1
             f3 == [f2 EXCEPT !.dst = @ \o ls[i]]
         IN  WriteLines(f3, ls, i + 1, TRUE)

write_str(f, s) ==
    LET f1 == WriteLines(f, Lines(s), 1, FirstShouldIndent(f))
    IN  IF s # <<>> /\ s[Len(s)] = NL
        THEN [f1 EXCEPT !.dst = Append(@, NL)]
        ELSE f1

\* write!(fmt, ...): one write_str per literal piece and per argument.
RECURSIVE WriteAll(_, _)
WriteAll(f, pieces) ==
    IF pieces = <<>> THEN f
    ELSE WriteAll(write_str(f, Head(pieces)), Tail(pieces))

\* Formatter::indent up to the call of its body.
\* indent that steps in by one space.
IndentEnterByOne(f) == [f EXCEPT !.spaces = @ + 1]

IndentEnter(f) == [f EXCEPT !.spaces = @ + f.indent]

\* The mutant returns the body's error before it restores the level.
IndentExitSkipOnErr(f, ok) ==
    IF ok THEN [f EXCEPT !.spaces = @ - f.indent] ELSE f

\* Formatter::indent from the return of its body; ok is whether the body
\* returned Ok, which indent hands on untouched.
IndentExit(f, ok) == [f EXCEPT !.spaces = @ - f.indent]

\* The mutant writes the space whether or not a line is open.
BlockLeadAlways(f) == write_str(f, <<" ">>)

\* The space that Formatter::block puts before its opening brace.
BlockLead(f) == IF ~is_start_of_line(f) THEN write_str(f, <<" ">>) ELSE f

\* The mutant opens the block and leaves the level as it was.
BlockEnterFlat(f) == write_str(BlockLead(f), <<"{", NL>>)

\* Formatter::block up to the call of its body.
BlockEnter(f) == IndentEnter(write_str(BlockLead(f), <<"{", NL>>))

\* Formatter::block from the return of its body: the ? leaves before the
\* closing brace when the body failed.
\* block that leaves the line of its closing brace open.
BlockExitOpenLine(f, ok) ==
    LET f1 == IndentExit(f, ok)
    IN  IF ok THEN write_str(f1, <<"}">>) ELSE f1

BlockExit(f, ok) ==
    LET f1 == IndentExit(f, ok)
    IN  IF ok THEN write_str(f1, <<"}", NL>>) ELSE f1

---------------------------------------------------------------------------
(* Docs, Attributes, Vis, Generics, Type, Field: the values the builders   *)
(* start from (docs.rs, attributes.rs, vis.rs, generics.rs, type_def.rs,   *)
(* field.rs)                                                               *)

DocsEmpty == [lines |-> <<>>]

AttributesNew == [attrs |-> <<>>]

GenericsNew == [lifetimes |-> <<>>, generics |-> <<>>]

\* A name is a text: a sequence of tokens.
TypeNew(name) == [name |-> name, docs |-> DocsEmpty, generics |-> GenericsNew]

\* name is Some(name).
FieldNewNamed(name, ty) ==
    [name |-> <<name>>, ty |-> ty, docs |-> DocsEmpty,
     attrs |-> AttributesNew, vis |-> "Private"]

\* name is None.
FieldNewUnnamed(ty) ==
    [name |-> <<>>, ty |-> ty, docs |-> DocsEmpty,
     attrs |-> AttributesNew, vis |-> "Private"]

\* push_doc that keeps the text as one entry.
DocsPushDocWhole(docs, text) == [docs EXCEPT !.lines = Append(@, text)]

DocsPushDoc(docs, text) == [docs EXCEPT !.lines = @ \o Lines(text)]

\* The literal that fmt_docs hands to starts_with: the whole format string
\* of Docs, placeholder and newline included.
DocsPrefix == "/// {}\n"

RECURSIVE DocsFmtFrom(_, _, _)
DocsFmtFrom(f, lines, i) ==
    IF i > Len(lines) THEN f
    ELSE LET line == lines[i]
             f1 == IF StartsWith(line, DocsPrefix) THEN write_str(f, line)
                   ELSE WriteAll(f, <<<<"/// ">>, line, <<NL>>>>)
         IN  IF InOrder(<<f1>>) THEN DocsFmtFrom(f1, lines, i + 1) ELSE f

DocsFmt(f, docs) == DocsFmtFrom(f, docs.lines, 1)

AttributesPushAttr(a, attr) == [a EXCEPT !.attrs = Append(@, attr)]

AttributesClearAttrs(a) == [a EXCEPT !.attrs = <<>>]

\* set_attrs overwrites what was there.
AttributesSetAttrs(a, attrs) == [a EXCEPT !.attrs = attrs]

AttributesExtendAttrs(a, attrs) == [a EXCEPT !.attrs = @ \o attrs]

\* The passthroughs of impl_attr_methods!, on whatever holds attrs: a
\* TypeDef, a Function, an Impl, a Module, a Field or a Variant.
PushAttr(item, attr) == [item EXCEPT !.attrs = AttributesPushAttr(@, attr)]

ClearAttrs(item) == [item EXCEPT !.attrs = AttributesClearAttrs(@)]

SetAttrs(item, attrs) == [item EXCEPT !.attrs = AttributesSetAttrs(@, attrs)]

ExtendAttrs(item, attrs) ==
    [item EXCEPT !.attrs = AttributesExtendAttrs(@, attrs)]

RECURSIVE AttributesFmtFrom(_, _, _)
AttributesFmtFrom(f, attrs, i) ==
    IF i > Len(attrs) THEN f
    ELSE LET attr == attrs[i]
             f1 == IF ~StartsWith(attr, "#[") THEN write_str(f, <<"#[">>)
                   ELSE f
             f2 == write_str(f1, attr)
             f3 == IF ~EndsWith(attr, "]") THEN write_str(f2, <<"]">>)
                   ELSE f2
             f4 == write_str(f3, <<NL>>)
         IN  IF InOrder(<<f1, f2, f3, f4>>)
             THEN AttributesFmtFrom(f4, attrs, i + 1)
             ELSE f

AttributesFmt(f, a) == AttributesFmtFrom(f, a.attrs, 1)

VisString(vis) ==
    CASE vis = "Private" -> <<>>
      [] vis = "Pub" -> <<<<"pub">>>>
      [] vis = "PubCrate" -> <<<<"pub(crate)">>>>
      [] vis = "PubSuper" -> <<<<"pub(super)">>>>

VisFmt(f, vis) ==
    IF VisString(vis) # <<>>
    THEN WriteAll(f, <<VisString(vis)[1], <<" ">>>>)
    ELSE f

GenericsPushLifetime(g, lifetime) ==
    [g EXCEPT !.lifetimes = Append(@, lifetime)]

GenericsPushGeneric(g, ty) == [g EXCEPT !.generics = Append(@, ty)]

RECURSIVE TypeFmt(_, _)
RECURSIVE GenericsFmt(_, _)
RECURSIVE GenericsFmtLifetimes(_, _, _)
RECURSIVE GenericsFmtTypes(_, _, _)

\* fmt_generics separating the lifetimes from each other only.
RECURSIVE GenericsFmtLifetimesAlone(_, _, _)
GenericsFmtLifetimesAlone(f, g, idx) ==
    IF idx > Len(g.lifetimes) THEN f
    ELSE LET f1 == write_str(f, g.lifetimes[idx])
             f2 == IF idx # Len(g.lifetimes)
                   THEN write_str(f1, <<", ">>) ELSE f1
         IN  IF InOrder(<<f1, f2>>)
             THEN GenericsFmtLifetimesAlone(f2, g, idx + 1)
             ELSE f

GenericsFmtLifetimes(f, g, idx) ==
    IF idx > Len(g.lifetimes) THEN f
    ELSE LET f1 == write_str(f, g.lifetimes[idx])
             f2 == IF g.generics # <<>> \/ idx # Len(g.lifetimes)
                   THEN write_str(f1, <<", ">>) ELSE f1
         IN  IF InOrder(<<f1, f2>>) THEN GenericsFmtLifetimes(f2, g, idx + 1)
             ELSE f

GenericsFmtTypes(f, g, idx) ==
    IF idx > Len(g.generics) THEN f
    ELSE LET f1 == TypeFmt(f, g.generics[idx])
             f2 == IF idx # Len(g.generics) THEN write_str(f1, <<", ">>)
                   ELSE f1
         IN  IF InOrder(<<f1, f2>>) THEN GenericsFmtTypes(f2, g, idx + 1)
             ELSE f

GenericsFmt(f, g) ==
    IF g.lifetimes # <<>> \/ g.generics # <<>>
    THEN LET f1 == write_str(f, <<"<">>)
             f2 == GenericsFmtLifetimes(f1, g, 1)
             f3 == GenericsFmtTypes(f2, g, 1)
         IN  IF InOrder(<<f1, f2, f3>>) THEN write_str(f3, <<">">>) ELSE f
    ELSE f

TypeFmt(f, ty) == GenericsFmt(write_str(f, ty.name), ty.generics)

TypePushGeneric(ty, generic) ==
    [ty EXCEPT !.generics = GenericsPushGeneric(@, generic)]

---------------------------------------------------------------------------
(* Bound, Bounds (bounds.rs)                                               *)

BoundNew(name) == [name |-> name, bounds |-> <<>>]

BoundNewWithBound(name, bound) == [name |-> name, bounds |-> <<bound>>]

BoundsNew == [bounds |-> <<>>]

BoundsPushBound(b, bound) == [b EXCEPT !.bounds = Append(@, bound)]

RECURSIVE BoundFmtTypes(_, _, _)
BoundFmtTypes(f, tys, i) ==
    IF i > Len(tys) THEN f
    ELSE LET f1 == IF i # 1 THEN write_str(f, <<" + ">>) ELSE f
             f2 == TypeFmt(f1, tys[i])
         IN  IF InOrder(<<f1, f2>>) THEN BoundFmtTypes(f2, tys, i + 1) ELSE f

\* ends_with is "SemiColon" or "Comma".
BoundFmt(f, bound, ends_with) ==
    LET f1 == IF bound.bounds = <<>>
              THEN write_str(f, bound.name)
              ELSE BoundFmtTypes(WriteAll(f, <<bound.name, <<":">>>>),
                                 bound.bounds, 1)
    IN  IF ends_with = "SemiColon"
        THEN write_str(f1, <<";", NL>>)
        ELSE write_str(f1, <<",", NL>>)

RECURSIVE BoundsFmtFrom(_, _, _)
BoundsFmtFrom(f, bs, i) ==
    IF i > Len(bs) THEN f
    ELSE LET f1 == BoundFmt(f, bs[i], "Comma")
         IN  IF InOrder(<<f1>>) THEN BoundsFmtFrom(f1, bs, i + 1) ELSE f

\* fmt_bounds opening the clause whether or not there is a bound.
BoundsFmtAlways(f, b) ==
    BoundsFmtFrom(write_str(f, <<NL, "where", NL>>), b.bounds, 1)

BoundsFmt(f, b) ==
    IF b.bounds # <<>>
    THEN BoundsFmtFrom(write_str(f, <<NL, "where", NL>>), b.bounds, 1)
    ELSE f

---------------------------------------------------------------------------
(* TypeDef (type_def.rs): the header shared by Struct, Enum and Trait      *)

\* repr is an Option: <<>> is None, <<r>> is Some(r).
TypeDefNew(name) ==
    [ty |-> TypeNew(name), vis |-> "Private", docs |-> DocsEmpty,
     derive |-> <<>>, allow |-> <<>>, repr |-> <<>>,
     bounds |-> BoundsNew, attrs |-> AttributesNew]

TypeDefDerive(d, name) == [d EXCEPT !.derive = Append(@, name)]

TypeDefAllow(d, allow) == [d EXCEPT !.allow = Append(@, allow)]

TypeDefRepr(d, repr) == [d EXCEPT !.repr = <<repr>>]

TypeDefPushDoc(d, line) == [d EXCEPT !.docs = DocsPushDoc(@, line)]

TypeDefPushAttr(d, attr) == PushAttr(d, attr)

TypeDefSetVis(d, vis) == [d EXCEPT !.vis = vis]

TypeDefPushGeneric(d, generic) == [d EXCEPT !.ty = TypePushGeneric(@, generic)]

TypeDefPushBound(d, bound) == [d EXCEPT !.bounds = BoundsPushBound(@, bound)]

RECURSIVE FmtAllowFrom(_, _, _)
FmtAllowFrom(f, allow, i) ==
    IF i > Len(allow) THEN f
    ELSE FmtAllowFrom(WriteAll(f, <<<<"#[allow(">>, allow[i], <<")]", NL>>>>),
                      allow, i + 1)

fmt_allow(f, d) == FmtAllowFrom(f, d.allow, 1)

fmt_repr(f, d) ==
    IF d.repr # <<>>
    THEN WriteAll(f, <<<<"#[repr(">>, d.repr[1], <<")]", NL>>>>)
    ELSE f

RECURSIVE FmtDeriveFrom(_, _, _)
FmtDeriveFrom(f, derive, i) ==
    IF i > Len(derive) THEN f
    ELSE LET f1 == IF i # 1 THEN write_str(f, <<", ">>) ELSE f
         IN  FmtDeriveFrom(write_str(f1, derive[i]), derive, i + 1)

fmt_derive(f, d) ==
    IF d.derive # <<>>
    THEN write_str(FmtDeriveFrom(write_str(f, <<"#[derive(">>), d.derive, 1),
                   <<")]", NL>>)
    ELSE f

RECURSIVE FmtParentsFrom(_, _, _)
FmtParentsFrom(f, parents, i) ==
    IF i > Len(parents) THEN f
    ELSE LET f1 == IF i = 1 THEN write_str(f, <<": ">>)
                   ELSE write_str(f, <<" + ">>)
         IN  FmtParentsFrom(TypeFmt(f1, parents[i]), parents, i + 1)

\* fmt_head with the derive line emitted ahead of the allow lines.
FmtHeadDeriveFirst(d, keyword, parents, f) ==
    LET f1 == DocsFmt(f, d.docs)
        f2 == fmt_derive(f1, d)
        f3 == fmt_allow(f2, d)
        f4 == fmt_repr(f3, d)
        f5 == AttributesFmt(f4, d.attrs)
        f6 == VisFmt(f5, d.vis)
        f7 == WriteAll(f6, <<keyword, <<" ">>>>)
        f8 == TypeFmt(f7, d.ty)
        f9 == FmtParentsFrom(f8, parents, 1)
    IN  IF InOrder(<<f1, f2, f3, f4, f5, f6, f7, f8, f9>>)
        THEN BoundsFmt(f9, d.bounds)
        ELSE f

fmt_head(d, keyword, parents, f) ==
    LET f1 == DocsFmt(f, d.docs)
        f2 == fmt_allow(f1, d)
        f3 == fmt_derive(f2, d)
        f4 == fmt_repr(f3, d)
        f5 == AttributesFmt(f4, d.attrs)
        f6 == VisFmt(f5, d.vis)
        f7 == WriteAll(f6, <<keyword, <<" ">>>>)
        f8 == TypeFmt(f7, d.ty)
        f9 == FmtParentsFrom(f8, parents, 1)
    IN  IF InOrder(<<f1, f2, f3, f4, f5, f6, f7, f8, f9>>)
        THEN BoundsFmt(f9, d.bounds)
        ELSE f

---------------------------------------------------------------------------
(* Fields (fields.rs): Empty, Tuple(Vec<Type>) or Named(Vec<Field>).  An   *)
(* operation gives the value it leaves and whether it panicked; a panic    *)
(* comes before any change.                                                *)

FieldsEmpty == [tag |-> "Empty", elems |-> <<>>]

Returned(fs) == [fields |-> fs, panicked |-> FALSE]

Panicked(fs) == [fields |-> fs, panicked |-> TRUE]

FieldsPushNamed(fs, field) ==
    CASE fs.tag = "Empty" ->
           Returned([tag |-> "Named", elems |-> <<field>>])
      [] fs.tag = "Named" ->
           Returned([fs EXCEPT !.elems = Append(@, field)])
      [] OTHER -> Panicked(fs)

FieldsNamed(fs, name, ty) == FieldsPushNamed(fs, FieldNewNamed(name, ty))

\* The mutant turns a Named value into a Tuple instead of panicking.
FieldsTupleOverwrite(fs, ty) ==
    IF fs.tag = "Tuple" THEN Returned([fs EXCEPT !.elems = Append(@, ty)])
    ELSE Returned([tag |-> "Tuple", elems |-> <<ty>>])

\* tuple that commits an Empty value to Tuple and holds the type back.
FieldsTupleCommitOnly(fs, ty) ==
    CASE fs.tag = "Empty" -> Returned([tag |-> "Tuple", elems |-> <<>>])
      [] fs.tag = "Tuple" ->
           Returned([fs EXCEPT !.elems = Append(@, ty)])
      [] OTHER -> Panicked(fs)

FieldsTuple(fs, ty) ==
    CASE fs.tag = "Empty" ->
           Returned([tag |-> "Tuple", elems |-> <<ty>>])
      [] fs.tag = "Tuple" ->
           Returned([fs EXCEPT !.elems = Append(@, ty)])
      [] OTHER -> Panicked(fs)

\* add_named: named, then a reference to the last field; the other arm of
\* its match is unreachable!().
FieldsAddNamed(fs, name, ty) ==
    LET r == FieldsNamed(fs, name, ty)
    IN  IF r.panicked THEN r
        ELSE IF r.fields.tag = "Named" THEN r ELSE Panicked(r.fields)

FieldsAddTuple(fs, ty) ==
    CASE fs.tag = "Tuple" ->
           Returned([fs EXCEPT !.elems = Append(@, ty)])
      [] OTHER -> Panicked(fs)

---------------------------------------------------------------------------
(* Rendering of Field and Fields (field.rs, fields.rs), Struct              *)
(* (struct_gen.rs)                                                         *)

FieldPushDoc(field, line) == [field EXCEPT !.docs = DocsPushDoc(@, line)]

FieldFmt(f, field) ==
    LET f1 == DocsFmt(f, field.docs)
        f2 == AttributesFmt(f1, field.attrs)
        f3 == IF field.name # <<>>
              THEN WriteAll(f2, <<field.name[1], <<": ">>>>)
              ELSE f2
        f4 == TypeFmt(f3, field.ty)
    IN  IF InOrder(<<f1, f2, f3, f4>>) THEN write_str(f4, <<",", NL>>) ELSE f

RECURSIVE FieldsFmtNamedFrom(_, _, _)
FieldsFmtNamedFrom(f, fs, i) ==
    IF i > Len(fs) THEN f
    ELSE LET f1 == FieldFmt(f, fs[i])
         IN  IF InOrder(<<f1>>) THEN FieldsFmtNamedFrom(f1, fs, i + 1) ELSE f

RECURSIVE FieldsFmtTupleFrom(_, _, _)
FieldsFmtTupleFrom(f, tys, i) ==
    IF i > Len(tys) THEN f
    ELSE LET f1 == IF i # 1 THEN write_str(f, <<", ">>) ELSE f
         IN  FieldsFmtTupleFrom(TypeFmt(f1, tys[i]), tys, i + 1)

\* assert!(!fields.is_empty()) in the Named arm and
\* assert!(!tys.is_empty()) in the Tuple arm of Fields::fmt.
FieldsFmtAsserted(fs) == fs.tag \in {"Named", "Tuple"} => fs.elems # <<>>

\* Fields::fmt: the formatter as the call leaves it, and whether the call
\* panicked ("fields": one of its assertions failed, ahead of any write).
FieldsFmt(f, fs) ==
    IF ~FieldsFmtAsserted(fs) THEN [f |-> f, panicked |-> "fields"]
    ELSE [f |-> CASE fs.tag = "Named" ->
                       BlockExit(FieldsFmtNamedFrom(BlockEnter(f), fs.elems,
                                                    1), TRUE)
                  [] fs.tag = "Tuple" ->
                       write_str(FieldsFmtTupleFrom(write_str(f, <<"(">>),
                                                    fs.elems, 1), <<")">>)
                  [] OTHER -> f,
          panicked |-> "no"]

StructNew(name) == [type_def |-> TypeDefNew(name), fields |-> FieldsEmpty]

\* The builder calls of Struct: the struct after the call, and whether the
\* call panicked.
StructWith(s, r) ==
    [item |-> [s EXCEPT !.fields = r.fields], panicked |-> r.panicked]

StructPushField(s, field) == StructWith(s, FieldsPushNamed(s.fields, field))

StructField(s, name, ty) == StructWith(s, FieldsNamed(s.fields, name, ty))

StructTupleField(s, ty) == StructWith(s, FieldsTuple(s.fields, ty))

\* Struct::fmt: the formatter as the call leaves it, and whether the call
\* panicked (in Fields::fmt, the head written).
StructFmt(s, f) ==
    LET f1 == fmt_head(s.type_def, <<"struct">>, <<>>, f)
        r == FieldsFmt(f1, s.fields)
    IN  IF ~InOrder(<<f1, r>>) \/ r.panicked # "no" THEN r
        ELSE [f |-> CASE s.fields.tag = "Empty" -> write_str(r.f, <<";", NL>>)
                      [] s.fields.tag = "Tuple" -> write_str(r.f, <<";", NL>>)
                      [] OTHER -> r.f,
              panicked |-> "no"]

---------------------------------------------------------------------------
(* Scope: scope.rs is not among the sources; its operations follow the     *)
(* description of the document (an ordered list of items and a table from  *)
(* import path to imported names, the consolidated imports rendered ahead  *)
(* of the items) and the expectations of tests/codegen.rs.                 *)

Range(s) == {s[i] : i \in DOMAIN s}

\* imports lists, by path in order of first import, the names imported
\* from the path in order of first import.
ScopeNew == [imports |-> <<>>, items |-> <<>>]

\* The part of an imported type ahead of its first `::` (scoped_imports:
\* importing baz::Baz from bar gives `use bar::baz`).
LeadingSegment(ty) ==
    IF \E i \in DOMAIN ty : ty[i] = "::"
    THEN SubSeq(ty, 1, (CHOOSE i \in DOMAIN ty :
                          ty[i] = "::" /\ \A j \in 1..(i - 1) : ty[j] # "::") - 1)
    ELSE ty

ScopeImport(scope, path, ty) ==
    LET name == LeadingSegment(ty)
        known == {i \in DOMAIN scope.imports : scope.imports[i].path = path}
    IN  IF known = {}
        THEN [scope EXCEPT !.imports =
                Append(@, [path |-> path, names |-> <<name>>])]
        ELSE LET i == CHOOSE k \in known : TRUE
             IN  IF name \in Range(scope.imports[i].names) THEN scope
                 ELSE [scope EXCEPT !.imports[i].names = Append(@, name)]

ScopeNewStruct(scope, name) ==
    [scope EXCEPT !.items = Append(@, StructNew(name))]

\* push_struct, push_enum, push_trait, push_impl, push_fn.
ScopePushItem(scope, item) == [scope EXCEPT !.items = Append(@, item)]

RECURSIVE ScopeFmtNamesFrom(_, _, _)
ScopeFmtNamesFrom(f, names, i) ==
    IF i > Len(names) THEN f
    ELSE LET f1 == IF i # 1 THEN write_str(f, <<", ">>) ELSE f
         IN  ScopeFmtNamesFrom(write_str(f1, names[i]), names, i + 1)

ScopeFmtImport(f, import) ==
    LET f1 == WriteAll(f, <<<<"use ">>, import.path, <<"::">>>>)
    IN  IF Len(import.names) > 1
        THEN write_str(ScopeFmtNamesFrom(write_str(f1, <<"{">>),
                                         import.names, 1),
                       <<"}", ";", NL>>)
        ELSE WriteAll(f1, <<import.names[1], <<";", NL>>>>)

RECURSIVE ScopeFmtImportsFrom(_, _, _)
ScopeFmtImportsFrom(f, imports, i) ==
    IF i > Len(imports) THEN f
    ELSE LET f1 == ScopeFmtImport(f, imports[i])
         IN  IF InOrder(<<f1>>) THEN ScopeFmtImportsFrom(f1, imports, i + 1)
             ELSE f

\* The rendering of one item of a scope, whatever its kind: the formatter
\* as the call leaves it, and whether the call panicked ("no", or the
\* panic of the renderer of the item). It is defined with the renderers of
\* the kinds, below.
RECURSIVE ItemFmt(_, _)

\* The items, a blank line ahead of every one of them, the first
\* included.
RECURSIVE ScopeFmtItemsBlankFirst(_, _, _)
ScopeFmtItemsBlankFirst(f, items, i) ==
    IF i > Len(items) THEN [f |-> f, panicked |-> "no"]
    ELSE LET f1 == write_str(f, <<NL>>)
             r == ItemFmt(f1, items[i])
         IN  IF ~InOrder(<<f1, r>>) \/ r.panicked # "no" THEN r
             ELSE ScopeFmtItemsBlankFirst(r.f, items, i + 1)

\* The items, a blank line between one and the next; the panic of an item
\* ends the rendering there.
RECURSIVE ScopeFmtItemsFrom(_, _, _)
ScopeFmtItemsFrom(f, items, i) ==
    IF i > Len(items) THEN [f |-> f, panicked |-> "no"]
    ELSE LET f1 == IF i # 1 THEN write_str(f, <<NL>>) ELSE f
             r == ItemFmt(f1, items[i])
         IN  IF ~InOrder(<<f1, r>>) \/ r.panicked # "no" THEN r
             ELSE ScopeFmtItemsFrom(r.f, items, i + 1)

\* The imports, a blank line after them if there are any, then the items:
\* the formatter as the call leaves it, and whether the call panicked.
ScopeFmt(f, scope) ==
    LET f1 == ScopeFmtImportsFrom(f, scope.imports, 1)
        f2 == IF scope.imports # <<>> THEN write_str(f1, <<NL>>) ELSE f1
    IN  IF InOrder(<<f1, f2>>) THEN ScopeFmtItemsFrom(f2, scope.items, 1)
        ELSE [f |-> f, panicked |-> "no"]

\* Rendering that makes sure the text ends in a newline.
ScopeToStringEndingLine(scope) ==
    LET r == ScopeFmt(FormatterNew(<<>>), scope)
        text == r.f.dst
    IN  IF r.panicked # "no" THEN [ret |-> <<>>, panicked |-> r.panicked]
        ELSE [ret |-> <<IF text # <<>> /\ text[Len(text)] = NL THEN text
                        ELSE Append(text, NL)>>,
              panicked |-> "no"]

\* Scope::to_string: the text returned (<<text>>; <<>> when the rendering
\* panicked and nothing is returned), and whether the call panicked.
ScopeToString(scope) ==
    LET r == ScopeFmt(FormatterNew(<<>>), scope)
    IN  IF r.panicked # "no" THEN [ret |-> <<>>, panicked |-> r.panicked]
        ELSE [ret |-> <<r.f.dst>>, panicked |-> "no"]

---------------------------------------------------------------------------
(* Module (module.rs)                                                      *)

ModuleNew(name) ==
    [name |-> name, vis |-> "Private", docs |-> DocsEmpty,
     scope |-> ScopeNew, attrs |-> AttributesNew]

\* Module::import that files the import under the first segment of path.
ModuleImportUnderRoot(m, path, ty) ==
    [m EXCEPT !.scope = ScopeImport(@, <<path[1]>>, ty)]

ModuleImport(m, path, ty) == [m EXCEPT !.scope = ScopeImport(@, path, ty)]

ModuleNewStruct(m, name) == [m EXCEPT !.scope = ScopeNewStruct(@, name)]

\* push_struct, push_fn, push_enum, push_impl, push_trait.
ModulePushItem(m, item) == [m EXCEPT !.scope = ScopePushItem(@, item)]

\* Module::fmt: the formatter as the call leaves it, and whether the call
\* panicked; the panic of an item of the scope unwinds out of the block,
\* which stays open, one step in.
ModuleFmt(m, f) ==
    LET f1 == AttributesFmt(f, m.attrs)
        f2 == VisFmt(f1, m.vis)
        f3 == WriteAll(f2, <<<<"mod ">>, m.name>>)
        f4 == BlockEnter(f3)
        r == ScopeFmt(f4, m.scope)
    IN  IF ~InOrder(<<f1, f2, f3, f4, r>>) \/ r.panicked # "no" THEN r
        ELSE [f |-> BlockExit(r.f, TRUE), panicked |-> "no"]

---------------------------------------------------------------------------
(* The Formatter under its callers: writes, and indent/block calls whose   *)
(* bodies write, open further scopes, or fail.                             *)

Alphabet == {"a", " ", NL}

WriteTexts == SeqsUpTo(Alphabet, MaxChars)

\* The buffers a Formatter is created over.
InitBufs == {<<>>, <<"x">>}

NoLast ==
    [op |-> "none", before |-> FormatterNew(<<>>), arg |-> <<>>,
     kind |-> "none", saved |-> 0, ok |-> TRUE]

NewRun(f) == [pre |-> f, pending |-> <<>>]

FmtInit ==
    /\ \E b \in InitBufs : fmt = FormatterNew(b)
    /\ scopes = <<>>
    /\ run = NewRun(fmt)
    /\ last = NoLast
    /\ err = FALSE
    /\ budget = [chars |-> 0, enters |-> 0]

\* A caller, or a running body, writes s.
FWrite(s) ==
    /\ ~err
    /\ budget.chars + Len(s) <= MaxChars
    /\ fmt' = write_str(fmt, s)
    /\ run' = [run EXCEPT !.pending = @ \o s]
    /\ last' = [NoLast EXCEPT !.op = "write", !.before = fmt, !.arg = s]
    /\ budget' = [budget EXCEPT !.chars = @ + Len(s)]
    /\ UNCHANGED <<scopes, err>>
    /\ UNCHANGED <<fieldsVars, td, st, moduleVars, nodeVars>>

\* Formatter::block is called and reaches its body.
FBlockEnter ==
    /\ ~err
    /\ budget.enters < MaxEnters
    /\ fmt' = BlockEnter(fmt)
    /\ scopes' = Append(scopes, [kind |-> "block", saved |-> fmt.spaces])
    /\ run' = NewRun(fmt')
    /\ last' = [NoLast EXCEPT !.op = "enter", !.before = fmt,
                              !.kind = "block", !.saved = fmt.spaces]
    /\ budget' = [budget EXCEPT !.enters = @ + 1]
    /\ UNCHANGED err
    /\ UNCHANGED <<fieldsVars, td, st, moduleVars, nodeVars>>

\* Formatter::indent is called and reaches its body.
FIndentEnter ==
    /\ ~err
    /\ budget.enters < MaxEnters
    /\ fmt' = IndentEnter(fmt)
    /\ scopes' = Append(scopes, [kind |-> "indent", saved |-> fmt.spaces])
    /\ run' = NewRun(fmt')
    /\ last' = [NoLast EXCEPT !.op = "enter", !.before = fmt,
                              !.kind = "indent", !.saved = fmt.spaces]
    /\ budget' = [budget EXCEPT !.enters = @ + 1]
    /\ UNCHANGED err
    /\ UNCHANGED <<fieldsVars, td, st, moduleVars, nodeVars>>

\* The innermost body returns, Ok or Err, and its indent or block call
\* finishes.  A body that got Err from a call it made and hands it on (err)
\* can only return Err.  The caller of a failed call hands the error on
\* (handled = FALSE) or deals with it; at top level nothing is left to hand
\* it to.
FExit(ok, handled) ==
    /\ scopes # <<>>
    /\ err => ~ok
    /\ LET top == scopes[Len(scopes)]
       IN  /\ fmt' = IF top.kind = "block" THEN BlockExit(fmt, ok)
                     ELSE IndentExit(fmt, ok)
           /\ last' = [NoLast EXCEPT !.op = "exit", !.before = fmt,
                                     !.kind = top.kind, !.saved = top.saved,
                                     !.ok = ok]
    /\ scopes' = SubSeq(scopes, 1, Len(scopes) - 1)
    /\ run' = NewRun(fmt')
    /\ err' = (~ok /\ ~handled /\ Len(scopes) > 1)
    /\ UNCHANGED budget
    /\ UNCHANGED <<fieldsVars, td, st, moduleVars, nodeVars>>

FmtNext ==
    \/ \E s \in WriteTexts : FWrite(s)
    \/ FBlockEnter
    \/ FIndentEnter
    \/ \E ok, handled \in BOOLEAN : FExit(ok, handled)

FieldsIdle == fields = "idle" /\ flast = "idle" /\ pushed = "idle"
HeadIdle == td = "idle"
StructIdle == st = "idle"
ModuleIdle == module = "idle" /\ mlog = "idle"
NodeIdle == node = "idle" /\ hist = "idle"
FmtIdle ==
    /\ fmt = "idle" /\ scopes = "idle" /\ run = "idle" /\ last = "idle"
    /\ err = "idle" /\ budget = "idle"

FmtSpecInit ==
    FmtInit /\ FieldsIdle /\ HeadIdle /\ StructIdle /\ ModuleIdle /\ NodeIdle

SpecFmt == FmtSpecInit /\ [][FmtNext]_vars

---------------------------------------------------------------------------
(* Claims about the Formatter, checked under SpecFmt                       *)

\* What the sink's rule asks of a write, one token at a time: a token that
\* is not a newline and lands at the start of a line (buffer empty or last
\* token a newline) is preceded by n spaces; nothing else is.
RECURSIVE RefWrite(_, _, _)
RefWrite(dst, n, s) ==
    IF s = <<>> THEN dst
    ELSE LET c == Head(s)
             atStart == dst = <<>> \/ dst[Len(dst)] = NL
             d1 == IF atStart /\ c # NL THEN dst \o Spaces(n) ELSE dst
         IN  RefWrite(Append(d1, c), n, Tail(s))

Top == scopes[Len(scopes)]

\* C1: consecutive writes leave the buffer as one write of the texts put
\* together does, whatever the buffer held and whatever the indentation
\* was when they began; an empty write adds nothing.
C1_SinkAssociativity == fmt.dst = write_str(run.pre, run.pending).dst

\* Two non-empty writes, the first one starting a line at a positive
\* indentation, with a line boundary in what they wrote.
C1_Witness ==
    /\ last.op = "write" /\ last.arg # <<>> /\ run.pending # last.arg
    /\ run.pre.spaces > 0 /\ is_start_of_line(run.pre)
    /\ \E i \in 1..Len(run.pending) : run.pending[i] = NL

\* C2: a write puts exactly `spaces` spaces before a line if and only if
\* the line is non-empty and begins at the start of a line of the buffer;
\* an empty line and the rest of an open line get none.
C2_IndentationRule ==
    last.op = "write" =>
        fmt.dst = RefWrite(last.before.dst, last.before.spaces, last.arg)

\* At a positive indentation and the start of a line: an empty line, then a
\* non-empty one.
C2_Witness ==
    /\ last.op = "write" /\ last.arg = <<NL, "a">>
    /\ last.before.spaces > 0 /\ is_start_of_line(last.before)

\* C3: while the body of indent or block runs the level is one step above
\* the level at the call, and when the call returns, the body having
\* succeeded or failed, the level is the one at the call.
C3_IndentRestored ==
    /\ scopes # <<>> => fmt.spaces = Top.saved + DEFAULT_INDENT
    /\ last.op = "exit" => fmt.spaces = last.saved

\* A nested block whose body failed has returned.
C3_Witness ==
    /\ last.op = "exit" /\ ~last.ok /\ last.kind = "block"
    /\ last.saved = DEFAULT_INDENT /\ scopes # <<>>

\* C4: block writes a space exactly when a line is open, then the opening
\* brace and a newline; what its body writes is written one step deeper;
\* then the closing brace and a newline at the level of the call.
C4_BlockLayout ==
    /\ (last.op = "enter" /\ last.kind = "block") =>
         fmt.dst = last.before.dst
                     \o (IF is_start_of_line(last.before)
                         THEN Spaces(last.before.spaces) ELSE <<" ">>)
                     \o <<"{", NL>>
    /\ (last.op = "write" /\ scopes # <<>> /\ Top.kind = "block") =>
         fmt.dst = RefWrite(last.before.dst, Top.saved + DEFAULT_INDENT,
                            last.arg)
    /\ (last.op = "exit" /\ last.kind = "block" /\ last.ok) =>
         fmt.dst = last.before.dst
                     \o (IF is_start_of_line(last.before)
                         THEN Spaces(last.saved) ELSE <<>>)
                     \o <<"}", NL>>

\* A block called with a line open has closed after its body wrote a line.
C4_Witness ==
    /\ last.op = "exit" /\ last.kind = "block" /\ last.ok
    /\ fmt.dst = <<"x", " ", "{", NL>> \o Spaces(DEFAULT_INDENT)
                   \o <<"a", NL, "}", NL>>

---------------------------------------------------------------------------
(* One Fields value under every sequence of its pushes                     *)

MaxFields == 3

FieldNames == {<<"one">>, <<"two">>}

TypeNames == {<<"T">>, <<"usize">>}

NoFLast ==
    [op |-> "none", kind |-> "none", before |-> FieldsEmpty, elem |-> <<>>,
     panicked |-> FALSE]

FieldsInit ==
    /\ fields = FieldsEmpty
    /\ flast = NoFLast
    /\ pushed = <<>>

\* The call op, a push of kind `kind` of elem, has ended as r says.
FieldsStep(op, kind, elem, r) ==
    /\ Len(fields.elems) < MaxFields
    /\ fields' = r.fields
    /\ flast' = [op |-> op, kind |-> kind, before |-> fields, elem |-> elem,
                 panicked |-> r.panicked]
    /\ pushed' = IF r.panicked THEN pushed ELSE Append(pushed, elem)
    /\ UNCHANGED <<fmtVars, td, st, moduleVars, nodeVars>>

FTuple(ty) ==
    FieldsStep("tuple", "positional", TypeNew(ty),
               FieldsTuple(fields, TypeNew(ty)))

FAddTuple(ty) ==
    FieldsStep("add_tuple", "positional", TypeNew(ty),
               FieldsAddTuple(fields, TypeNew(ty)))

\* The fields handed to push_named: made by Field::new_named, and one made
\* by Field::new_unnamed.
PushNamedInputs ==
    {FieldNewNamed(name, TypeNew(ty)) : name \in FieldNames, ty \in TypeNames}
    \cup {FieldNewUnnamed(TypeNew(<<"T">>))}

FPushNamed(field) ==
    FieldsStep("push_named", "named", field, FieldsPushNamed(fields, field))

FNamed(name, ty) ==
    FieldsStep("named", "named", FieldNewNamed(name, TypeNew(ty)),
               FieldsNamed(fields, name, TypeNew(ty)))

FAddNamed(name, ty) ==
    FieldsStep("add_named", "named", FieldNewNamed(name, TypeNew(ty)),
               FieldsAddNamed(fields, name, TypeNew(ty)))

FieldsNext ==
    \/ \E ty \in TypeNames : FTuple(ty)
    \/ \E ty \in TypeNames : FAddTuple(ty)
    \/ \E field \in PushNamedInputs : FPushNamed(field)
    \/ \E name \in FieldNames, ty \in TypeNames : FNamed(name, ty)
    \/ \E name \in FieldNames, ty \in TypeNames : FAddNamed(name, ty)

FieldsSpecInit ==
    FieldsInit /\ FmtIdle /\ HeadIdle /\ StructIdle /\ ModuleIdle /\ NodeIdle

SpecFields == FieldsSpecInit /\ [][FieldsNext]_vars

KindTag(kind) == IF kind = "positional" THEN "Tuple" ELSE "Named"

\* C5: on a Tuple every named push fails and on a Named every positional
\* push fails, leaving the value as it was; a push of the committed kind
\* returns and appends its element at the end; the stored elements are the
\* elements of the pushes that returned, in call order; a committed value
\* keeps its kind.
C5_ShapeExclusivity ==
    /\ fields.elems = pushed
    /\ flast.before.tag # "Empty" =>
         /\ fields.tag = flast.before.tag
         /\ flast.panicked <=> KindTag(flast.kind) # flast.before.tag
         /\ flast.panicked => fields = flast.before
         /\ ~flast.panicked =>
              fields.elems = Append(flast.before.elems, flast.elem)

\* A named push on a Tuple of two types has failed.
C5_Witness ==
    /\ flast.before.tag = "Tuple" /\ Len(flast.before.elems) = 2
    /\ flast.kind = "named" /\ flast.panicked
    /\ fields.tag = "Tuple"

\* C6 as claimed: on an Empty value the first push, through any of the five
\* operations, returns and leaves the value committed to the kind of the
\* push, holding exactly the pushed element.
C6_FirstPushCommits ==
    (flast.op # "none" /\ flast.before.tag = "Empty") =>
        /\ ~flast.panicked
        /\ fields = [tag |-> KindTag(flast.kind), elems |-> <<flast.elem>>]

---------------------------------------------------------------------------
(* The header of a Struct, an Enum or a Trait under construction           *)
(* (struct_gen.rs, enum_gen.rs, trait_gen.rs over type_def.rs)             *)

\* The most documentation lines and the most derives, and the most entries
\* of any other section.
MaxListed == 2
MaxOthers == 1

Keywords == {<<"struct">>, <<"enum">>, <<"trait">>}

\* A doc argument is given as its lines; the call passes them joined by
\* newlines.
DocInputs == {<<<<"d">>>>, <<<<"d">>, <<"e">>>>}
DeriveInputs == {<<"Debug">>, <<"Clone">>}
AllowInputs == {<<"dead_code">>}
ReprInputs == {<<"C">>}
\* An attribute is given bare; shown is its line.
AttrInputs ==
    {[given |-> <<"cfg(test)">>, shown |-> <<"#[", "cfg(test)", "]">>]}
\* The lists handed to set_attrs and extend_attrs.
AttrListInputs ==
    {[given |-> <<>>, shown |-> <<>>],
     [given |-> <<<<"inline">>>>, shown |-> <<<<"#[", "inline", "]">>>>]}
VisInputs == {"PubCrate"}
GenericInputs == {<<"T">>}
BoundInputs == {[name |-> <<"T">>, req |-> <<"Clone">>]}
ParentInputs == {<<"Base">>}

RECURSIVE Join(_, _)
Join(ss, sep) ==
    IF ss = <<>> THEN <<>>
    ELSE IF Len(ss) = 1 THEN ss[1]
    ELSE ss[1] \o sep \o Join(Tail(ss), sep)

\* Struct::new, Enum::new, Trait::new: the part of the item that the header
\* is rendered from.
ItemNew(keyword, name) ==
    [keyword |-> keyword, type_def |-> TypeDefNew(name), parents |-> <<>>]

TraitParent(item, ty) == [item EXCEPT !.parents = Append(@, ty)]

\* The head as Struct::fmt, Enum::fmt and Trait::fmt render it: only a
\* Trait passes parents.
ItemFmtHead(item, f) ==
    fmt_head(item.type_def, item.keyword,
             IF item.keyword = <<"trait">> THEN item.parents ELSE <<>>, f)

\* What the calls issued so far have said, section by section, in call
\* order within a section.
NothingSaid ==
    [docs |-> <<>>, allow |-> <<>>, derive |-> <<>>, repr |-> <<>>,
     attrs |-> <<>>, vis |-> <<>>, generics |-> <<>>, parents |-> <<>>,
     bounds |-> <<>>]

SectionOrder ==
    <<"docs", "allow", "derive", "repr", "attrs", "vis", "generics",
      "parents", "bounds">>

Rank(section) == CHOOSE i \in 1..Len(SectionOrder) : SectionOrder[i] = section

\* A call for section fills a section that renders ahead of one already
\* filled.
OutOfOrder(said, section) ==
    \E later \in DOMAIN said :
        said[later] # <<>> /\ Rank(later) > Rank(section)

HeadInit ==
    \E keyword \in Keywords :
        td = [item |-> ItemNew(keyword, <<"Foo">>), said |-> NothingSaid,
              shuffled |-> FALSE]

HeadStep(item, section, entries) ==
    /\ td' = [item |-> item,
              said |-> [td.said EXCEPT ![section] =
                          IF section \in {"repr", "vis"} THEN entries
                          ELSE @ \o entries],
              shuffled |-> td.shuffled \/ OutOfOrder(td.said, section)]
    /\ UNCHANGED <<fmtVars, fieldsVars, st, moduleVars, nodeVars>>

\* A call that overwrites a section: what was said for it before is gone.
HeadReset(item, section, entries) ==
    /\ td' = [item |-> item,
              said |-> [td.said EXCEPT ![section] = entries],
              shuffled |-> td.shuffled \/ OutOfOrder(td.said, section)]
    /\ UNCHANGED <<fmtVars, fieldsVars, st, moduleVars, nodeVars>>

Room(section, n) ==
    Len(td.said[section]) + n
      <= IF section \in {"docs", "derive"} THEN MaxListed ELSE MaxOthers

OnTypeDef(d) == [td.item EXCEPT !.type_def = d]

HPushDoc(ls) ==
    /\ Room("docs", Len(ls))
    /\ HeadStep(OnTypeDef(TypeDefPushDoc(td.item.type_def, Join(ls, <<NL>>))),
                "docs", ls)

HAllow(allow) ==
    /\ Room("allow", 1)
    /\ HeadStep(OnTypeDef(TypeDefAllow(td.item.type_def, allow)),
                "allow", <<allow>>)

HDerive(name) ==
    /\ Room("derive", 1)
    /\ HeadStep(OnTypeDef(TypeDefDerive(td.item.type_def, name)),
                "derive", <<name>>)

HRepr(repr) ==
    HeadStep(OnTypeDef(TypeDefRepr(td.item.type_def, repr)),
                "repr", <<repr>>)

HPushAttr(attr) ==
    /\ Room("attrs", 1)
    /\ HeadStep(OnTypeDef(TypeDefPushAttr(td.item.type_def, attr.given)),
                "attrs", <<attr.shown>>)

HClearAttrs ==
    HeadReset(OnTypeDef(ClearAttrs(td.item.type_def)), "attrs", <<>>)

HSetAttrs(attrs) ==
    HeadReset(OnTypeDef(SetAttrs(td.item.type_def, attrs.given)),
              "attrs", attrs.shown)

HExtendAttrs(attrs) ==
    /\ Room("attrs", Len(attrs.given))
    /\ HeadStep(OnTypeDef(ExtendAttrs(td.item.type_def, attrs.given)),
                "attrs", attrs.shown)

HSetVis(vis) ==
    HeadStep(OnTypeDef(TypeDefSetVis(td.item.type_def, vis)),
                "vis", <<vis>>)

HPushGeneric(name) ==
    /\ Room("generics", 1)
    /\ HeadStep(OnTypeDef(TypeDefPushGeneric(td.item.type_def, TypeNew(name))),
                "generics", <<name>>)

HPushBound(b) ==
    /\ Room("bounds", 1)
    /\ HeadStep(OnTypeDef(TypeDefPushBound(td.item.type_def,
                            BoundNewWithBound(b.name, TypeNew(b.req)))),
                "bounds", <<b>>)

HParent(name) ==
    /\ td.item.keyword = <<"trait">> /\ Room("parents", 1)
    /\ HeadStep(TraitParent(td.item, TypeNew(name)), "parents", <<name>>)

HeadNext ==
    \/ \E ls \in DocInputs : HPushDoc(ls)
    \/ \E allow \in AllowInputs : HAllow(allow)
    \/ \E name \in DeriveInputs : HDerive(name)
    \/ \E repr \in ReprInputs : HRepr(repr)
    \/ \E attr \in AttrInputs : HPushAttr(attr)
    \/ HClearAttrs
    \/ \E attrs \in AttrListInputs : HSetAttrs(attrs)
    \/ \E attrs \in AttrListInputs : HExtendAttrs(attrs)
    \/ \E vis \in VisInputs : HSetVis(vis)
    \/ \E name \in GenericInputs : HPushGeneric(name)
    \/ \E b \in BoundInputs : HPushBound(b)
    \/ \E name \in ParentInputs : HParent(name)

HeadSpecInit ==
    HeadInit /\ FmtIdle /\ FieldsIdle /\ StructIdle /\ ModuleIdle /\ NodeIdle

SpecHead == HeadSpecInit /\ [][HeadNext]_vars

\* The text of one section, from what was said for it.
RECURSIVE EachLine(_, _, _)
EachLine(entries, before, after) ==
    IF entries = <<>> THEN <<>>
    ELSE before \o Head(entries) \o after \o EachLine(Tail(entries), before, after)

RECURSIVE WhereLines(_)
WhereLines(bs) ==
    IF bs = <<>> THEN <<>>
    ELSE Head(bs).name \o <<":">> \o Head(bs).req \o <<",", NL>>
         \o WhereLines(Tail(bs))

SectionText(said, section) ==
    CASE section = "docs" -> EachLine(said.docs, <<"/// ">>, <<NL>>)
      [] section = "allow" -> EachLine(said.allow, <<"#[allow(">>, <<")]", NL>>)
      [] section = "derive" ->
           IF said.derive = <<>> THEN <<>>
           ELSE <<"#[derive(">> \o Join(said.derive, <<", ">>) \o <<")]", NL>>
      [] section = "repr" -> EachLine(said.repr, <<"#[repr(">>, <<")]", NL>>)
      [] section = "attrs" -> EachLine(said.attrs, <<>>, <<NL>>)
      [] section = "vis" ->
           IF said.vis = <<>> THEN <<>> ELSE <<"pub(crate)", " ">>
      [] section = "generics" ->
           IF said.generics = <<>> THEN <<>>
           ELSE <<"<">> \o Join(said.generics, <<", ">>) \o <<">">>
      [] section = "parents" ->
           IF said.parents = <<>> THEN <<>>
           ELSE <<": ">> \o Join(said.parents, <<" + ">>)
      [] section = "bounds" ->
           IF said.bounds = <<>> THEN <<>>
           ELSE <<NL, "where", NL>> \o WhereLines(said.bounds)

\* The sections in the fixed order, the keyword and the name between the
\* visibility and the generics.
HeadInFixedOrder(keyword, name, said) ==
    Concat([i \in 1..6 |-> SectionText(said, SectionOrder[i])])
    \o keyword \o <<" ">> \o name
    \o Concat([i \in 1..3 |-> SectionText(said, SectionOrder[6 + i])])

\* C7: whatever the order of the builder calls on a struct, an enum or a
\* trait, the rendered header is the documentation lines, the allow lines,
\* one derive line, the repr line, the free attributes, the visibility, the
\* keyword, the name with its generics, the parent list and the where
\* clause, in that order, the empty sections left out; the call order shows
\* only in the order of the entries inside one section.
C7_HeaderSectionOrder ==
    ItemFmtHead(td.item, FormatterNew(<<>>)).dst
      = HeadInFixedOrder(td.item.keyword, <<"Foo">>, td.said)

\* A trait with every section filled, two derives among them, by calls
\* issued out of the rendering order.
C7_Witness ==
    /\ td.item.keyword = <<"trait">>
    /\ td.shuffled
    /\ \A section \in DOMAIN td.said : td.said[section] # <<>>
    /\ td.said.derive = <<<<"Clone">>, <<"Debug">>>>
    /\ td.said.bounds[1] = [name |-> <<"T">>, req |-> <<"Clone">>]

---------------------------------------------------------------------------
(* A Struct under its field calls (struct_gen.rs)                          *)

MaxStructFields == 3

\* The fields handed to push_field: named, one of them documented, and one
\* made by Field::new_unnamed.
PushedFields ==
    {FieldNewNamed(name, TypeNew(<<"T">>)) : name \in FieldNames}
    \cup {FieldPushDoc(FieldNewNamed(<<"one">>, TypeNew(<<"usize">>)), <<"d">>)}
    \cup {FieldNewUnnamed(TypeNew(<<"T">>))}

\* said lists what the calls that returned asked for: [name, ty, docs] for
\* a field (name is <<>> for a field with no name, <<name>> for one with a
\* name), [ty] for a positional one.
StructInit ==
    st = [item |-> StructNew(<<"Foo">>), said |-> <<>>, panicked |-> FALSE]

StructStep(r, entry) ==
    /\ Len(st.item.fields.elems) < MaxStructFields
    /\ st' = [item |-> r.item,
              said |-> IF r.panicked THEN st.said ELSE Append(st.said, entry),
              panicked |-> r.panicked]
    /\ UNCHANGED <<fmtVars, fieldsVars, td, moduleVars, nodeVars>>

SField(name, ty) ==
    StructStep(StructField(st.item, name, TypeNew(ty)),
               [name |-> <<name>>, ty |-> ty, docs |-> <<>>])

SPushField(field) ==
    StructStep(StructPushField(st.item, field),
               [name |-> field.name, ty |-> field.ty.name,
                docs |-> field.docs.lines])

STupleField(ty) ==
    StructStep(StructTupleField(st.item, TypeNew(ty)), [ty |-> ty])

StructNext ==
    \/ \E name \in FieldNames, ty \in TypeNames : SField(name, ty)
    \/ \E field \in PushedFields : SPushField(field)
    \/ \E ty \in TypeNames : STupleField(ty)

StructSpecInit ==
    StructInit /\ FmtIdle /\ FieldsIdle /\ HeadIdle /\ ModuleIdle /\ NodeIdle

SpecStruct == StructSpecInit /\ [][StructNext]_vars

IsNamedEntry(entry) == "name" \in DOMAIN entry

RECURSIVE NamedFieldLines(_)
NamedFieldLines(entries) ==
    IF entries = <<>> THEN <<>>
    ELSE LET e == Head(entries)
         IN  EachLine(e.docs, Spaces(DEFAULT_INDENT) \o <<"/// ">>, <<NL>>)
             \o Spaces(DEFAULT_INDENT)
             \o (IF e.name # <<>> THEN e.name[1] \o <<": ">> ELSE <<>>)
             \o e.ty \o <<",", NL>> \o NamedFieldLines(Tail(entries))

\* What Struct::fmt writes per shape: a struct with no fields renders as
\* the one line `struct Foo;`; with positional fields, as the types in
\* parentheses, separated by commas, followed by a semicolon and a
\* newline; with fields pushed by field or push_field, as a brace block
\* holding one line per field (under the field's documentation, if any),
\* `name: Type,` for a field with a name and `Type,` for one with none, and
\* no semicolon after the block.
C8_TerminationPerShape ==
    StructFmt(st.item, FormatterNew(<<>>)).f.dst =
      <<"struct", " ", "Foo">> \o
      ( IF st.said = <<>> THEN <<";", NL>>
        ELSE IF IsNamedEntry(st.said[1])
        THEN <<" ", "{", NL>> \o NamedFieldLines(st.said) \o <<"}", NL>>
        ELSE <<"(">>
             \o Join([i \in 1..Len(st.said) |-> st.said[i].ty], <<", ">>)
             \o <<")", ";", NL>> )

\* The lines between the braces of the block that Struct::fmt writes for a
\* Named struct, less their indentation and less the documentation lines.
FieldLinesShown ==
    LET lines == Lines(StructFmt(st.item, FormatterNew(<<>>)).f.dst)
        inner == SubSeq(lines, 2, Len(lines) - 1)
        bare == [i \in 1..Len(inner) |-> Str(Unindented(inner[i]))]
    IN  SelectSeq(bare, LAMBDA line : ~(Len(line) >= 3
                                        /\ SubSeq(line, 1, 3) = "///"))

\* `name: Type,`: a name, a colon and a space, a type, a comma.
IsNameTypeLine(line) ==
    /\ Len(line) >= 5
    /\ SubSeq(line, Len(line), Len(line)) = ","
    /\ \E k \in 2..(Len(line) - 3) : SubSeq(line, k, k + 1) = ": "

\* C8: a struct with no fields renders as the one line `struct Foo;`; with
\* positional fields, as the types in parentheses, separated by commas,
\* followed by a semicolon and a newline; with a Named field list, as a
\* brace block holding one `name: Type,` line per field, in insertion
\* order, and no semicolon after the block.
C8_StructTermination ==
    /\ C8_TerminationPerShape
    /\ st.item.fields.tag = "Named" =>
         /\ Len(FieldLinesShown) = Len(st.item.fields.elems)
         /\ \A i \in DOMAIN FieldLinesShown :
              IsNameTypeLine(FieldLinesShown[i])

\* push_field of a field made by Field::new_unnamed, then field: a Named
\* list whose first field has no name.
C8_Witness ==
    /\ st.item.fields.tag = "Named"
    /\ Len(st.said) = 2
    /\ st.said[1].name = <<>>
    /\ Str(StructFmt(st.item, FormatterNew(<<>>)).f.dst) =
         "struct Foo {\n    T,\n    one: T,\n}\n"

---------------------------------------------------------------------------
(* A Module under import and new_struct calls (module.rs)                  *)

MaxImports == 4
MaxItems == 1

PathInputs == {<<"bar">>, <<"bar", "::", "quux">>}
NameInputs == {<<"Bar">>, <<"Baz">>}
StructNames == {<<"Foo">>}

\* mlog lists the calls made so far.
ModuleInit ==
    /\ module = ModuleNew(<<"foo">>)
    /\ mlog = <<>>

ImportsSaid == SelectSeq(mlog, LAMBDA call : call.op = "import")

MImport(path, name) ==
    /\ Len(ImportsSaid) < MaxImports
    /\ module' = ModuleImport(module, path, name)
    /\ mlog' = Append(mlog, [op |-> "import", path |-> path, name |-> name])
    /\ UNCHANGED <<fmtVars, fieldsVars, td, st, nodeVars>>

MNewStruct(name) ==
    /\ Len(module.scope.items) < MaxItems
    /\ module' = ModuleNewStruct(module, name)
    /\ mlog' = Append(mlog, [op |-> "new_struct", name |-> name])
    /\ UNCHANGED <<fmtVars, fieldsVars, td, st, nodeVars>>

ModuleNext ==
    \/ \E path \in PathInputs, name \in NameInputs : MImport(path, name)
    \/ \E name \in StructNames : MNewStruct(name)

ModuleSpecInit ==
    ModuleInit /\ FmtIdle /\ FieldsIdle /\ HeadIdle /\ StructIdle /\ NodeIdle

SpecModule == ModuleSpecInit /\ [][ModuleNext]_vars

\* C9: a Scope to which no import and no item has ever been added renders
\* to the empty string.
C9_EmptyScopeRendersEmpty ==
    mlog = <<>> =>
      ScopeToString(module.scope) = [ret |-> <<<<>>>>, panicked |-> "no"]

\* The scope of a module just made: nothing added, nothing rendered for it
\* between the braces of the module.
C9_Witness ==
    /\ mlog = <<>>
    /\ module.scope = ScopeNew
    /\ ModuleFmt(module, FormatterNew(<<>>)) =
         [f |-> [FormatterNew(<<>>) EXCEPT
                   !.dst = <<"mod ", "foo", " ", "{", NL, "}", NL>>],
          panicked |-> "no"]

\* The entries of s, each at its first occurrence only.
RECURSIVE Distinct(_)
Distinct(s) ==
    IF s = <<>> THEN <<>>
    ELSE LET d == Distinct(SubSeq(s, 1, Len(s) - 1))
         IN  IF s[Len(s)] \in Range(d) THEN d ELSE Append(d, s[Len(s)])

PathsSaid == Distinct([i \in 1..Len(ImportsSaid) |-> ImportsSaid[i].path])

NamesSaid(path) ==
    LET from == SelectSeq(ImportsSaid, LAMBDA call : call.path = path)
    IN  Distinct([i \in 1..Len(from) |-> from[i].name])

\* The one statement for a path and the names imported from it.
UseStatement(path, names) ==
    <<"use ">> \o path \o <<"::">> \o
    ( IF Len(names) > 1
      THEN <<"{">> \o Join(names, <<", ">>) \o <<"}", ";">>
      ELSE names[1] \o <<";">> )

\* The use statements of the rendered module, in the order rendered.
UseLines ==
    LET lines == Lines(ModuleFmt(module, FormatterNew(<<>>)).f.dst)
        bare == [i \in 1..Len(lines) |-> Unindented(lines[i])]
    IN  SelectSeq(bare, LAMBDA line : line # <<>> /\ line[1] = "use ")

---------------------------------------------------------------------------
(* A Module whose scope takes a few imports and several items              *)
(* (module.rs)                                                             *)

MaxDocImports == 2
MaxDocItems == 2

DocStructNames == {<<"Foo">>, <<"Bar">>}

ItemsSaid == SelectSeq(mlog, LAMBDA call : call.op = "new_struct")

DImport(path, name) ==
    /\ Len(ImportsSaid) < MaxDocImports
    /\ module' = ModuleImport(module, path, name)
    /\ mlog' = Append(mlog, [op |-> "import", path |-> path, name |-> name])
    /\ UNCHANGED <<fmtVars, fieldsVars, td, st, nodeVars>>

DNewStruct(name) ==
    /\ Len(ItemsSaid) < MaxDocItems
    /\ module' = ModuleNewStruct(module, name)
    /\ mlog' = Append(mlog, [op |-> "new_struct", name |-> name])
    /\ UNCHANGED <<fmtVars, fieldsVars, td, st, nodeVars>>

DocNext ==
    \/ \E path \in PathInputs, name \in NameInputs : DImport(path, name)
    \/ \E name \in DocStructNames : DNewStruct(name)

SpecDoc == ModuleSpecInit /\ [][DocNext]_vars

\* The use statements for the imports made, one per line.
UseLinesSaid ==
    Concat([i \in 1..Len(PathsSaid) |->
              UseStatement(PathsSaid[i], NamesSaid(PathsSaid[i])) \o <<NL>>])

\* The items added, each a unit struct, one blank line between one and the
\* next.
ItemsTextSaid ==
    Join([i \in 1..Len(ItemsSaid) |->
            <<"struct", " ">> \o ItemsSaid[i].name \o <<";", NL>>],
         <<NL>>)

\* C11: the rendering of a scope is all the consolidated import statements,
\* then the items in the order they were added; one blank line between two
\* successive items, none ahead of the first item when there are no
\* imports (one, after the imports, when there are).
C11_DocumentOrder ==
    ScopeToString(module.scope)
      = [ret |-> <<UseLinesSaid
                   \o (IF ImportsSaid # <<>> THEN <<NL>> ELSE <<>>)
                   \o ItemsTextSaid>>,
         panicked |-> "no"]

\* Bar added ahead of Foo, an import made between the two.
C11_Witness ==
    /\ Len(ItemsSaid) = 2 /\ Len(ImportsSaid) = 1
    /\ mlog[1].op = "new_struct" /\ mlog[1].name = <<"Bar">>
    /\ mlog[3].op = "new_struct" /\ mlog[3].name = <<"Foo">>
    /\ ScopeToString(module.scope)
         = [ret |-> <<<<"use ", "bar", "::", "Bar", ";", NL, NL,
                       "struct", " ", "Bar", ";", NL, NL,
                       "struct", " ", "Foo", ";", NL>>>>,
            panicked |-> "no"]


----------------------------------------------------------------------------
(* Type::path (type_def.rs): qualifying a type name                        *)

\* Names and paths are spelled out character by character here, so that
\* str::contains("::") is a search for two adjacent colons.
MaxNameLen == 3
MaxPathCalls == 3

NameChars == {"a", ":"}

PathTexts == {<<>>, <<"p">>, <<"p", ":">>}

PathSeparator == <<":", ":">>

\* str::contains.
Contains(s, pat) ==
    \E i \in 1..(Len(s) - Len(pat) + 1) : SubSeq(s, i, i + Len(pat) - 1) = pat

\* path without its assertion.
TypePathUnchecked(ty, path) ==
    [self |-> ty, panicked |-> FALSE,
     ret |-> <<[name |-> path \o PathSeparator \o ty.name,
                docs |-> ty.docs, generics |-> ty.generics]>>]

\* Type::path(&self, path): self as the call leaves it, the type returned
\* (none when the assertion fails), and whether the assertion failed.
TypePath(ty, path) ==
    IF Contains(ty.name, PathSeparator)
    THEN [self |-> ty, panicked |-> TRUE, ret |-> <<>>]
    ELSE [self |-> ty, panicked |-> FALSE,
          ret |-> <<[name |-> path \o PathSeparator \o ty.name,
                     docs |-> ty.docs, generics |-> ty.generics]>>]

\* node is the chain of types: the one made by Type::new, then the one each
\* path call returned, made from the one before it.
PathInit ==
    /\ node \in {<<TypeNew(name)>> : name \in SeqsUpTo(NameChars, MaxNameLen)}
    /\ hist = <<>>

PathAborted == hist # <<>> /\ hist[Len(hist)].panicked

PathCalls == SelectSeq(hist, LAMBDA call : call.op = "path")

\* Type::push_generic on the newest type of the chain.
PGeneric(generic) ==
    /\ ~PathAborted
    /\ node[Len(node)].generics.generics = <<>>
    /\ node' = [node EXCEPT ![Len(node)] = TypePushGeneric(@, generic)]
    /\ hist' = Append(hist, [op |-> "generic", panicked |-> FALSE])
    /\ UNCHANGED <<fmtVars, fieldsVars, td, st, moduleVars>>

\* newest.path(path): the type returned joins the chain.
PPath(path) ==
    /\ ~PathAborted
    /\ Len(PathCalls) < MaxPathCalls
    /\ LET ty == node[Len(node)]
           r == TypePath(ty, path)
       IN  /\ node' = [node EXCEPT ![Len(node)] = r.self] \o r.ret
           /\ hist' = Append(hist, [op |-> "path", path |-> path,
                                    before |-> ty, after |-> r.self,
                                    ret |-> r.ret, panicked |-> r.panicked])
    /\ UNCHANGED <<fmtVars, fieldsVars, td, st, moduleVars>>

PathNext ==
    \/ \E generic \in {TypeNew(<<"T">>)} : PGeneric(generic)
    \/ \E path \in PathTexts : PPath(path)

PathSpecInit ==
    PathInit /\ FmtIdle /\ FieldsIdle /\ HeadIdle /\ StructIdle /\ ModuleIdle

SpecPath == PathSpecInit /\ [][PathNext]_vars

\* C16: path fails exactly when the name of the type holds `::`; otherwise
\* it returns a type named path + `::` + name with the generics of the
\* original and leaves the original as it was. A path call made on the
\* type that a path call returned always fails.
C16_PathQualifiesOnce ==
    \A k \in DOMAIN hist :
        hist[k].op = "path" =>
            LET call == hist[k]
            IN  /\ call.panicked <=> Contains(call.before.name, PathSeparator)
                /\ call.after = call.before
                /\ ~call.panicked =>
                      /\ Len(call.ret) = 1
                      /\ call.ret[1].name =
                             call.path \o <<":", ":">> \o call.before.name
                      /\ call.ret[1].generics = call.before.generics
                /\ (k > 1 /\ hist[k - 1].op = "path") => call.panicked

\* a:a with a generic is qualified by p, and qualifying the result fails.
C16_Witness ==
    /\ Len(hist) = 3
    /\ hist[2].op = "path" /\ hist[3].op = "path"
    /\ hist[2].before.name = <<"a", ":", "a">>
    /\ hist[2].before.generics.generics # <<>>
    /\ hist[2].ret[1].name = <<"p", ":", ":", "a", ":", "a">>
    /\ hist[3].panicked
    /\ Len(node) = 2


----------------------------------------------------------------------------
(* Bound (bounds.rs): one constraint and its rendering                     *)

MaxRequired == 3

RECURSIVE StrJoin(_, _)
StrJoin(strs, sep) ==
    IF strs = <<>> THEN ""
    ELSE IF Len(strs) = 1 THEN strs[1]
    ELSE strs[1] \o sep \o StrJoin(Tail(strs), sep)

BoundClearBounds(bound) == [bound EXCEPT !.bounds = <<>>]

BoundPushBound(bound, ty) == [bound EXCEPT !.bounds = Append(@, ty)]

SubjectNames == {<<"T">>, <<"U">>, <<"Self::Out">>}

\* A required type and the string the caller means by it.
RequiredInputs ==
    {[ty |-> TypeNew(<<"Foo">>), shown |-> "Foo"],
     [ty |-> TypeNew(<<"Baz">>), shown |-> "Baz"],
     [ty |-> TypePushGeneric(TypeNew(<<"Into">>), TypeNew(<<"U">>)),
      shown |-> "Into<U>"]}

\* node is a Bound; hist lists the strings of its required types, as the
\* calls gave them.
BoundInit ==
    /\ node \in {BoundNew(name) : name \in SubjectNames}
    /\ hist = <<>>

BPushBound(required) ==
    /\ Len(hist) < MaxRequired
    /\ node' = BoundPushBound(node, required.ty)
    /\ hist' = Append(hist, required.shown)
    /\ UNCHANGED <<fmtVars, fieldsVars, td, st, moduleVars>>

BClearBounds ==
    /\ hist # <<>>
    /\ node' = BoundClearBounds(node)
    /\ hist' = <<>>
    /\ UNCHANGED <<fmtVars, fieldsVars, td, st, moduleVars>>

BoundNext ==
    \/ \E required \in RequiredInputs : BPushBound(required)
    \/ BClearBounds

BoundSpecInit ==
    BoundInit /\ FmtIdle /\ FieldsIdle /\ HeadIdle /\ StructIdle /\ ModuleIdle

SpecBound == BoundSpecInit /\ [][BoundNext]_vars

\* What fmt_bound writes into an empty sink.
BoundToString(bound, ends_with) ==
    Str(BoundFmt(FormatterNew(<<>>), bound, ends_with).dst)

\* C17: a bound with no required type renders as its subject; with required
\* types, as the subject, a colon and a space, then the required types in
\* the order given, joined by ` + `; then `,` (where clause) or `;`
\* (associated type) and a newline.
C17_ConstraintRendering ==
    LET subject == Str(node.name)
        required == IF hist = <<>> THEN ""
                    ELSE ": " \o StrJoin(hist, " + ")
    IN  /\ BoundToString(node, "Comma") = subject \o required \o ",\n"
        /\ BoundToString(node, "SemiColon") = subject \o required \o ";\n"

\* What the code writes: the same with no space after the colon.
C17_ColonWithoutSpace ==
    LET subject == Str(node.name)
        required == IF hist = <<>> THEN ""
                    ELSE ":" \o StrJoin(hist, " + ")
    IN  /\ BoundToString(node, "Comma") = subject \o required \o ",\n"
        /\ BoundToString(node, "SemiColon") = subject \o required \o ";\n"

\* T with Foo and Into<U> required: `T:Foo + Into<U>,`.
C17_Witness ==
    /\ node.name = <<"T">>
    /\ hist = <<"Foo", "Into<U>">>
    /\ BoundToString(node, "Comma") = "T:Foo + Into<U>,\n"


----------------------------------------------------------------------------
(* Generics (generics.rs): lifetimes and type parameters                   *)

MaxLifetimes == 2
MaxTypeParams == 2

GenericsClearLifetimes(g) == [g EXCEPT !.lifetimes = <<>>]

GenericsClearGenerics(g) == [g EXCEPT !.generics = <<>>]

\* A lifetime or a type parameter and the string the caller means by it.
LifetimeInputs ==
    {[given |-> <<"'a">>, shown |-> "'a"],
     [given |-> <<"'b">>, shown |-> "'b"],
     [given |-> <<"'static">>, shown |-> "'static"]}

TypeParamInputs ==
    {[given |-> TypeNew(<<"T">>), shown |-> "T"],
     [given |-> TypeNew(<<"U">>), shown |-> "U"],
     [given |-> TypePushGeneric(TypeNew(<<"Into">>), TypeNew(<<"U">>)),
      shown |-> "Into<U>"]}

\* node is a Generics; hist lists the strings of its lifetimes and of its
\* type parameters, as the calls gave them.
GenericsInit ==
    /\ node = GenericsNew
    /\ hist = [lifetimes |-> <<>>, generics |-> <<>>]

GPushLifetime(lifetime) ==
    /\ Len(hist.lifetimes) < MaxLifetimes
    /\ node' = GenericsPushLifetime(node, lifetime.given)
    /\ hist' = [hist EXCEPT !.lifetimes = Append(@, lifetime.shown)]
    /\ UNCHANGED <<fmtVars, fieldsVars, td, st, moduleVars>>

GPushGeneric(generic) ==
    /\ Len(hist.generics) < MaxTypeParams
    /\ node' = GenericsPushGeneric(node, generic.given)
    /\ hist' = [hist EXCEPT !.generics = Append(@, generic.shown)]
    /\ UNCHANGED <<fmtVars, fieldsVars, td, st, moduleVars>>

GClearLifetimes ==
    /\ hist.lifetimes # <<>>
    /\ node' = GenericsClearLifetimes(node)
    /\ hist' = [hist EXCEPT !.lifetimes = <<>>]
    /\ UNCHANGED <<fmtVars, fieldsVars, td, st, moduleVars>>

GClearGenerics ==
    /\ hist.generics # <<>>
    /\ node' = GenericsClearGenerics(node)
    /\ hist' = [hist EXCEPT !.generics = <<>>]
    /\ UNCHANGED <<fmtVars, fieldsVars, td, st, moduleVars>>

GenericsNext ==
    \/ \E lifetime \in LifetimeInputs : GPushLifetime(lifetime)
    \/ \E generic \in TypeParamInputs : GPushGeneric(generic)
    \/ GClearLifetimes
    \/ GClearGenerics

GenericsSpecInit ==
    GenericsInit /\ FmtIdle /\ FieldsIdle /\ HeadIdle /\ StructIdle
    /\ ModuleIdle

SpecGenerics == GenericsSpecInit /\ [][GenericsNext]_vars

\* What fmt_generics writes into an empty sink.
GenericsToString(g) == Str(GenericsFmt(FormatterNew(<<>>), g).dst)

\* C19: with no lifetime and no type parameter nothing is rendered;
\* otherwise `<`, the lifetimes in insertion order, then the type
\* parameters in insertion order, one `, ` between neighbours and none
\* after the last entry, then `>`.
C19_GenericsRendering ==
    GenericsToString(node) =
      IF hist.lifetimes = <<>> /\ hist.generics = <<>> THEN ""
      ELSE "<" \o StrJoin(hist.lifetimes \o hist.generics, ", ") \o ">"

\* Two lifetimes and two type parameters.
C19_Witness ==
    /\ hist.lifetimes = <<"'a", "'static">>
    /\ hist.generics = <<"T", "Into<U>">>
    /\ GenericsToString(node) = "<'a, 'static, T, Into<U>>"


----------------------------------------------------------------------------
(* Bounds (bounds.rs): the where clause of an item                         *)

MaxBounds == 3

BoundsClearBounds(b) == [b EXCEPT !.bounds = <<>>]

TypeDefClearBounds(d) == [d EXCEPT !.bounds = BoundsClearBounds(@)]

\* A bound and the line fmt_bound makes of it, less its terminator.
WhereInputs ==
    {[given |-> BoundNew(<<"T">>), shown |-> "T"],
     [given |-> BoundNewWithBound(<<"T">>, TypeNew(<<"Foo">>)),
      shown |-> "T:Foo"],
     [given |-> BoundNewWithBound(<<"U">>, TypeNew(<<"Baz">>)),
      shown |-> "U:Baz"]}

\* node is a Struct; hist lists the bounds pushed since the last
\* clear_bounds, and tells whether there was a clear_bounds and which
\* fields the struct was given.
WhereInit ==
    /\ node = StructNew(<<"Foo">>)
    /\ hist = [bounds |-> <<>>, cleared |-> FALSE, fields |-> "Empty"]

WPushBound(bound) ==
    /\ Len(hist.bounds) < MaxBounds
    /\ node' = [node EXCEPT !.type_def = TypeDefPushBound(@, bound.given)]
    /\ hist' = [hist EXCEPT !.bounds = Append(@, bound.shown)]
    /\ UNCHANGED <<fmtVars, fieldsVars, td, st, moduleVars>>

WClearBounds ==
    /\ hist.bounds # <<>>
    /\ node' = [node EXCEPT !.type_def = TypeDefClearBounds(@)]
    /\ hist' = [hist EXCEPT !.bounds = <<>>, !.cleared = TRUE]
    /\ UNCHANGED <<fmtVars, fieldsVars, td, st, moduleVars>>

\* field("one", "T") on a struct with no field yet.
WField ==
    /\ hist.fields = "Empty"
    /\ node' = StructField(node, <<"one">>, TypeNew(<<"T">>)).item
    /\ hist' = [hist EXCEPT !.fields = "Named"]
    /\ UNCHANGED <<fmtVars, fieldsVars, td, st, moduleVars>>

\* tuple_field("T") on a struct with no field yet.
WTupleField ==
    /\ hist.fields = "Empty"
    /\ node' = StructTupleField(node, TypeNew(<<"T">>)).item
    /\ hist' = [hist EXCEPT !.fields = "Tuple"]
    /\ UNCHANGED <<fmtVars, fieldsVars, td, st, moduleVars>>

WhereNext ==
    \/ \E bound \in WhereInputs : WPushBound(bound)
    \/ WClearBounds
    \/ WField
    \/ WTupleField

WhereSpecInit ==
    WhereInit /\ FmtIdle /\ FieldsIdle /\ HeadIdle /\ StructIdle /\ ModuleIdle

SpecWhere == WhereSpecInit /\ [][WhereNext]_vars

\* What fmt_bounds writes into an empty sink.
BoundsToString(b) == Str(BoundsFmt(FormatterNew(<<>>), b).dst)

RECURSIVE WhereLinesSaid(_)
WhereLinesSaid(shown) ==
    IF shown = <<>> THEN ""
    ELSE Head(shown) \o ",\n" \o WhereLinesSaid(Tail(shown))

\* C18: an empty bounds collection, a cleared one included, renders
\* nothing; a non-empty one renders a newline, `where` on a line of its
\* own, then one line per bound in insertion order, each ended by a comma.
\* The block that follows a where clause opens at the start of a line, with
\* no space ahead of its brace.
C18_WhereClause ==
    LET clause == IF hist.bounds = <<>> THEN ""
                  ELSE "\nwhere\n" \o WhereLinesSaid(hist.bounds)
        body == CASE hist.fields = "Empty" -> ";\n"
                  [] hist.fields = "Tuple" -> "(T);\n"
                  [] hist.fields = "Named" ->
                       (IF hist.bounds = <<>> THEN " {\n" ELSE "{\n")
                       \o "    one: T,\n}\n"
    IN  /\ BoundsToString(node.type_def.bounds) = clause
        /\ Str(StructFmt(node, FormatterNew(<<>>)).f.dst) =
             "struct Foo" \o clause \o body

\* Two bounds pushed after a clear_bounds, ahead of a block of named fields.
C18_Witness ==
    /\ hist = [bounds |-> <<"T:Foo", "U:Baz">>, cleared |-> TRUE,
               fields |-> "Named"]
    /\ Str(StructFmt(node, FormatterNew(<<>>)).f.dst) =
         "struct Foo\nwhere\nT:Foo,\nU:Baz,\n{\n    one: T,\n}\n"


----------------------------------------------------------------------------
(* Function (function.rs), AssociatedType (associated_type.rs), Trait      *)
(* (trait_gen.rs), Impl (impl_gen.rs)                                      *)

\* allow, arg_self, ret, body and extern_abi are Options: <<>> is None,
\* <<x>> is Some(x). A body is a list of lines.
FunctionWith(name, body) ==
    [name |-> name, docs |-> DocsEmpty, allow |-> <<>>, vis |-> "Private",
     generics |-> GenericsNew, arg_self |-> <<>>, args |-> <<>>,
     ret |-> <<>>, bounds |-> BoundsNew, body |-> body,
     attrs |-> AttributesNew, extern_abi |-> <<>>, is_async |-> FALSE]

FunctionNewTraitFn(name) == FunctionWith(name, <<>>)

FunctionNew(name) == FunctionWith(name, <<<<>>>>)

FunctionSetVis(fn, vis) == [fn EXCEPT !.vis = vis]

FunctionAllow(fn, allow) == [fn EXCEPT !.allow = <<allow>>]

FunctionExternAbi(fn, abi) == [fn EXCEPT !.extern_abi = <<abi>>]

FunctionArgRefSelf(fn) == [fn EXCEPT !.arg_self = <<<<"&self">>>>]

FunctionArg(fn, name, ty) ==
    [fn EXCEPT !.args = Append(@, FieldNewNamed(name, ty))]

FunctionRet(fn, ty) == [fn EXCEPT !.ret = <<ty>>]

\* An entry of a body (enum Body): a line of text or a block.
BodyString(line) == [tag |-> "String", text |-> line]

BodyBlock(block) == [tag |-> "Block", block |-> block]

\* Block::new(before) (block.rs is not among the sources): a block with no
\* entry under the text before.
BlockNew(before) == [before |-> before, body |-> <<>>]

\* push that leaves a function with no body as it is.
FunctionPushOntoBodyOnly(fn, entry) ==
    [fn EXCEPT !.body = IF @ = <<>> THEN <<>> ELSE <<Append(@[1], entry)>>]

\* body.get_or_insert(vec![]).push(entry).
FunctionPush(fn, entry) ==
    [fn EXCEPT !.body = IF @ = <<>> THEN <<<<entry>>>>
                        ELSE <<Append(@[1], entry)>>]

\* line: body.get_or_insert(vec![]).push(Body::String(line)).
FunctionLine(fn, line) == FunctionPush(fn, BodyString(line))

\* push_block: body.get_or_insert(vec![]).push(Body::Block(block)).
FunctionPushBlock(fn, block) == FunctionPush(fn, BodyBlock(block))

\* Block::fmt (block.rs is not among the sources): the text before, then
\* a block; the blocks of the model have no entry.
BlockFmt(f, block) ==
    BlockExit(BlockEnter(write_str(f, block.before)), TRUE)

\* Body::fmt (body.rs is not among the sources): a line and a newline, or
\* the block.
BodyFmt(f, b) ==
    IF b.tag = "String" THEN WriteAll(f, <<b.text, <<NL>>>>)
    ELSE BlockFmt(f, b.block)

RECURSIVE FunctionFmtLinesFrom(_, _, _)
FunctionFmtLinesFrom(f, lines, i) ==
    IF i > Len(lines) THEN f
    ELSE LET f1 == BodyFmt(f, lines[i])
         IN  IF InOrder(<<f1>>) THEN FunctionFmtLinesFrom(f1, lines, i + 1)
             ELSE f

RECURSIVE FunctionFmtArgsFrom(_, _, _)
FunctionFmtArgsFrom(f, fn, i) ==
    IF i > Len(fn.args) THEN f
    ELSE LET f1 == IF i # 1 \/ fn.arg_self # <<>>
                   THEN write_str(f, <<", ">>) ELSE f
             f2 == FieldFmt(f1, fn.args[i])
         IN  IF InOrder(<<f1, f2>>) THEN FunctionFmtArgsFrom(f2, fn, i + 1)
             ELSE f

\* No assertion on the visibility.
FunctionVisUnasserted(fn, is_trait) == TRUE

\* No check of the body.
FunctionBodyUnchecked(fn, is_trait) == TRUE

\* The assertion on the visibility of a trait fn: whether it passes.
FunctionVisAsserted(fn, is_trait) == is_trait => fn.vis = "Private"

\* The check on a function without a body: whether it passes.
FunctionBodyChecked(fn, is_trait) == fn.body = <<>> => is_trait

\* Function::fmt from the visibility to the where clause.
FunctionFmtSignature(fn, f) ==
    LET f1 == VisFmt(f, fn.vis)
        f2 == IF fn.extern_abi # <<>>
              THEN WriteAll(f1, <<<<"extern \"">>, fn.extern_abi[1],
                                  <<"\" ">>>>)
              ELSE f1
        f3 == IF fn.is_async THEN write_str(f2, <<"async ">>) ELSE f2
        f4 == WriteAll(f3, <<<<"fn ">>, fn.name>>)
        f5 == GenericsFmt(f4, fn.generics)
        f6 == write_str(f5, <<"(">>)
        f7 == IF fn.arg_self # <<>> THEN write_str(f6, fn.arg_self[1])
              ELSE f6
        f8 == FunctionFmtArgsFrom(f7, fn, 1)
        f9 == write_str(f8, <<")">>)
        f10 == IF fn.ret # <<>>
               THEN TypeFmt(write_str(f9, <<" -> ">>), fn.ret[1])
               ELSE f9
    IN  IF InOrder(<<f1, f2, f3, f4, f5, f6, f7, f8, f9, f10>>)
        THEN BoundsFmt(f10, fn.bounds)
        ELSE f

\* Function::fmt(is_trait, fmt): the formatter as the call leaves it, and
\* whether the call panicked ("vis": the assertion on the visibility,
\* "body": a function with no body outside a trait).
FunctionFmt(fn, is_trait, f) ==
    LET f1 == DocsFmt(f, fn.docs)
        f2 == IF fn.allow # <<>>
              THEN WriteAll(f1, <<<<"#[allow(">>, fn.allow[1], <<")]", NL>>>>)
              ELSE f1
        f3 == AttributesFmt(f2, fn.attrs)
        f4 == FunctionFmtSignature(fn, f3)
    IN  IF ~InOrder(<<f1, f2, f3>>) THEN [f |-> f, panicked |-> "no"]
        ELSE IF ~FunctionVisAsserted(fn, is_trait)
        THEN [f |-> f3, panicked |-> "vis"]
        ELSE IF ~InOrder(<<f4>>) THEN [f |-> f, panicked |-> "no"]
        ELSE IF fn.body # <<>>
        THEN [f |-> BlockExit(FunctionFmtLinesFrom(BlockEnter(f4),
                                                   fn.body[1], 1), TRUE),
              panicked |-> "no"]
        ELSE IF ~FunctionBodyChecked(fn, is_trait)
        THEN [f |-> f4, panicked |-> "body"]
        ELSE [f |-> write_str(f4, <<";", NL>>), panicked |-> "no"]

AssociatedTypeNew(name) == [bound |-> BoundNew(name), docs |-> DocsEmpty]

AssociatedTypeNewWithBound(name, bound) ==
    [bound |-> BoundNewWithBound(name, bound), docs |-> DocsEmpty]

AssociatedTypeFmt(f, assoc_ty) ==
    BoundFmt(write_str(f, <<"type ">>), assoc_ty.bound, "SemiColon")

\* Field::fmt_assoc_type_value; the name is there (expect).
FieldFmtAssocTypeValue(f, field) ==
    LET f1 == WriteAll(f, <<<<"type ">>, field.name[1], <<" = ">>>>)
        f2 == TypeFmt(f1, field.ty)
    IN  IF InOrder(<<f1, f2>>) THEN write_str(f2, <<";", NL>>) ELSE f

TraitNew(name) ==
    [type_def |-> TypeDefNew(name), parents |-> <<>>,
     associated_tys |-> <<>>, fns |-> <<>>]

TraitAssociatedType(t, name) ==
    [t EXCEPT !.associated_tys = Append(@, AssociatedTypeNew(name))]

TraitPushFn(t, item) == [t EXCEPT !.fns = Append(@, item)]

TraitNewFn(t, name) == TraitPushFn(t, FunctionNewTraitFn(name))

ImplNew(target) ==
    [target |-> target, generics |-> GenericsNew, impl_trait |-> <<>>,
     assoc_tys |-> <<>>, bounds |-> BoundsNew, fns |-> <<>>,
     attrs |-> AttributesNew]

ImplImplTrait(impl, ty) == [impl EXCEPT !.impl_trait = <<ty>>]

ImplAssociateType(impl, name, ty) ==
    [impl EXCEPT !.assoc_tys = Append(@, FieldNewNamed(name, ty))]

ImplPushFn(impl, item) == [impl EXCEPT !.fns = Append(@, item)]

ImplNewFn(impl, name) == ImplPushFn(impl, FunctionNew(name))

RECURSIVE TraitFmtAssocFrom(_, _, _)
TraitFmtAssocFrom(f, assoc, i) ==
    IF i > Len(assoc) THEN f
    ELSE LET f1 == AssociatedTypeFmt(f, assoc[i])
         IN  IF InOrder(<<f1>>) THEN TraitFmtAssocFrom(f1, assoc, i + 1)
             ELSE f

RECURSIVE ImplFmtAssocFrom(_, _, _)
ImplFmtAssocFrom(f, assoc_tys, i) ==
    IF i > Len(assoc_tys) THEN f
    ELSE LET f1 == FieldFmtAssocTypeValue(f, assoc_tys[i])
         IN  IF InOrder(<<f1>>) THEN ImplFmtAssocFrom(f1, assoc_tys, i + 1)
             ELSE f

\* The loop over the functions with a newline ahead of every function.
RECURSIVE FmtFnsBlankAlways(_, _, _, _, _)
FmtFnsBlankAlways(f, fns, i, has_assoc, is_trait) ==
    IF i > Len(fns) THEN [f |-> f, panicked |-> "no"]
    ELSE LET f1 == write_str(f, <<NL>>)
             r == FunctionFmt(fns[i], is_trait, f1)
         IN  IF ~InOrder(<<f1, r>>) \/ r.panicked # "no" THEN r
             ELSE FmtFnsBlankAlways(r.f, fns, i + 1, has_assoc, is_trait)

\* The loop over the functions that Trait::fmt and Impl::fmt share but for
\* is_trait: a newline ahead of a function that is not the first thing in
\* the block, then the function; a panic ends the loop.
RECURSIVE FmtFnsFrom(_, _, _, _, _)
FmtFnsFrom(f, fns, i, has_assoc, is_trait) ==
    IF i > Len(fns) THEN [f |-> f, panicked |-> "no"]
    ELSE LET f1 == IF i # 1 \/ has_assoc THEN write_str(f, <<NL>>) ELSE f
             r == FunctionFmt(fns[i], is_trait, f1)
         IN  IF ~InOrder(<<f1, r>>) \/ r.panicked # "no" THEN r
             ELSE FmtFnsFrom(r.f, fns, i + 1, has_assoc, is_trait)

\* Trait::fmt: the formatter, and whether a function panicked (the block
\* is then left open).
TraitFmt(t, f) ==
    LET f1 == fmt_head(t.type_def, <<"trait">>, t.parents, f)
        f2 == BlockEnter(f1)
        f3 == TraitFmtAssocFrom(f2, t.associated_tys, 1)
        r == FmtFnsFrom(f3, t.fns, 1, t.associated_tys # <<>>, TRUE)
    IN  IF ~InOrder(<<f1, f2, f3, r>>) \/ r.panicked # "no" THEN r
        ELSE [f |-> BlockExit(r.f, TRUE), panicked |-> "no"]

ImplFmt(impl, f) ==
    LET f1 == AttributesFmt(f, impl.attrs)
        f2 == write_str(f1, <<"impl">>)
        f3 == GenericsFmt(f2, impl.generics)
        f4 == IF impl.impl_trait # <<>>
              THEN write_str(TypeFmt(write_str(f3, <<" ">>),
                                     impl.impl_trait[1]), <<" for">>)
              ELSE f3
        f5 == TypeFmt(write_str(f4, <<" ">>), impl.target)
        f6 == BoundsFmt(f5, impl.bounds)
        f7 == BlockEnter(f6)
        f8 == ImplFmtAssocFrom(f7, impl.assoc_tys, 1)
        r == FmtFnsFrom(f8, impl.fns, 1, impl.assoc_tys # <<>>, FALSE)
    IN  IF ~InOrder(<<f1, f2, f3, f4, f5, f6, f7, f8, r>>)
           \/ r.panicked # "no" THEN r
        ELSE [f |-> BlockExit(r.f, TRUE), panicked |-> "no"]


VariantNew(name) ==
    [name |-> name, docs |-> DocsEmpty, attrs |-> AttributesNew,
     fields |-> FieldsEmpty]

\* The builder calls of Variant: the variant after the call, and whether
\* the call panicked.
VariantWith(v, r) ==
    [item |-> [v EXCEPT !.fields = r.fields], panicked |-> r.panicked]

VariantNamed(v, name, ty) == VariantWith(v, FieldsNamed(v.fields, name, ty))

VariantTuple(v, ty) == VariantWith(v, FieldsTuple(v.fields, ty))

\* Variant::fmt that writes no comma after the block of a Named variant.
VariantFmtNoCommaAfterBlock(v, f) ==
    LET f1 == DocsFmt(f, v.docs)
        f2 == AttributesFmt(f1, v.attrs)
        f3 == write_str(f2, v.name)
        r == FieldsFmt(f3, v.fields)
    IN  IF ~InOrder(<<f1, f2, f3, r>>) \/ r.panicked # "no" THEN r
        ELSE [f |-> IF v.fields.tag = "Named" THEN r.f
                    ELSE write_str(r.f, <<",", NL>>),
              panicked |-> "no"]

\* Variant::fmt: the formatter as the call leaves it, and whether the call
\* panicked (in Fields::fmt).
VariantFmt(v, f) ==
    LET f1 == DocsFmt(f, v.docs)
        f2 == AttributesFmt(f1, v.attrs)
        f3 == write_str(f2, v.name)
        r == FieldsFmt(f3, v.fields)
    IN  IF ~InOrder(<<f1, f2, f3, r>>) \/ r.panicked # "no" THEN r
        ELSE [f |-> write_str(r.f, <<",", NL>>), panicked |-> "no"]

EnumNew(name) == [type_def |-> TypeDefNew(name), variants |-> <<>>]

EnumPushVariant(e, item) == [e EXCEPT !.variants = Append(@, item)]

RECURSIVE EnumFmtVariantsFrom(_, _, _)
EnumFmtVariantsFrom(f, variants, i) ==
    IF i > Len(variants) THEN [f |-> f, panicked |-> "no"]
    ELSE LET r == VariantFmt(variants[i], f)
         IN  IF ~InOrder(<<r>>) \/ r.panicked # "no" THEN r
             ELSE EnumFmtVariantsFrom(r.f, variants, i + 1)

\* Enum::fmt: the formatter as the call leaves it, and whether the call
\* panicked; a panic in a variant leaves the block open.
EnumFmt(e, f) ==
    LET f1 == fmt_head(e.type_def, <<"enum">>, <<>>, f)
        f2 == BlockEnter(f1)
        r == EnumFmtVariantsFrom(f2, e.variants, 1)
    IN  IF ~InOrder(<<f1, f2, r>>) \/ r.panicked # "no" THEN r
        ELSE [f |-> BlockExit(r.f, TRUE), panicked |-> "no"]

\* Item::Raw(text).
ItemRaw(text) == [raw |-> text]

\* The kind of an item (item.rs), told by what it is made of.
ItemKind(item) ==
    CASE "raw" \in DOMAIN item -> "Raw"
      [] "scope" \in DOMAIN item -> "Module"
      [] "fields" \in DOMAIN item -> "Struct"
      [] "variants" \in DOMAIN item -> "Enum"
      [] "associated_tys" \in DOMAIN item -> "Trait"
      [] "target" \in DOMAIN item -> "Impl"
      [] OTHER -> "Function"

\* An item of a scope is rendered by the renderer of its kind, a function
\* with is_trait false, a raw text as it is and a newline; the panic of
\* the renderer is the panic of the call.
ItemFmt(f, item) ==
    CASE ItemKind(item) = "Raw" ->
           [f |-> WriteAll(f, <<item.raw, <<NL>>>>), panicked |-> "no"]
      [] ItemKind(item) = "Module" -> ModuleFmt(item, f)
      [] ItemKind(item) = "Struct" -> StructFmt(item, f)
      [] ItemKind(item) = "Enum" -> EnumFmt(item, f)
      [] ItemKind(item) = "Trait" -> TraitFmt(item, f)
      [] ItemKind(item) = "Impl" -> ImplFmt(item, f)
      [] OTHER -> FunctionFmt(item, FALSE, f)

----------------------------------------------------------------------------
(* Building and rendering a trait or an impl block                         *)

MaxMembers == 3

IsTrait == node.kind = "trait"

AssocNames == {"Out", "Err"}

\* The functions handed to push_fn: made by new_trait_fn (no body) or by
\* new (an empty body), with each visibility.
FnInputs ==
    {[vis |-> vis, body |-> has_body] :
        vis \in {"Private", "Pub", "PubCrate", "PubSuper"},
        has_body \in BOOLEAN}

FnGiven(input) ==
    FunctionSetVis(IF input.body THEN FunctionNew(<<"given">>)
                   ELSE FunctionNewTraitFn(<<"given">>), input.vis)

\* node is a Trait or an Impl; hist lists the calls that gave it its
\* associated types and its functions.
BodyInit ==
    /\ node \in {[kind |-> "trait", item |-> TraitNew(<<"Foo">>)],
                 [kind |-> "impl", item |-> ImplNew(TypeNew(<<"Foo">>))],
                 [kind |-> "impl",
                  item |-> ImplImplTrait(ImplNew(TypeNew(<<"Foo">>)),
                                         TypeNew(<<"Bar">>))]}
    /\ hist = <<>>

\* Trait::associated_type(name); Impl::associate_type(name, "T").
YAssociatedType(name) ==
    /\ Len(hist) < MaxMembers
    /\ node' = [node EXCEPT !.item =
                  IF IsTrait THEN TraitAssociatedType(@, <<name>>)
                  ELSE ImplAssociateType(@, <<name>>, TypeNew(<<"T">>))]
    /\ hist' = Append(hist, [op |-> "type", name |-> name])
    /\ UNCHANGED <<fmtVars, fieldsVars, td, st, moduleVars>>

\* new_fn("made"): without a body in a trait, with an empty one in an impl.
YNewFn ==
    /\ Len(hist) < MaxMembers
    /\ node' = [node EXCEPT !.item =
                  IF IsTrait THEN TraitNewFn(@, <<"made">>)
                  ELSE ImplNewFn(@, <<"made">>)]
    /\ hist' = Append(hist, [op |-> "fn", name |-> "made",
                             vis |-> "Private", body |-> ~IsTrait])
    /\ UNCHANGED <<fmtVars, fieldsVars, td, st, moduleVars>>

YPushFn(input) ==
    /\ Len(hist) < MaxMembers
    /\ node' = [node EXCEPT !.item =
                  IF IsTrait THEN TraitPushFn(@, FnGiven(input))
                  ELSE ImplPushFn(@, FnGiven(input))]
    /\ hist' = Append(hist, [op |-> "fn", name |-> "given",
                             vis |-> input.vis, body |-> input.body])
    /\ UNCHANGED <<fmtVars, fieldsVars, td, st, moduleVars>>

BodyNext ==
    \/ \E name \in AssocNames : YAssociatedType(name)
    \/ YNewFn
    \/ \E input \in FnInputs : YPushFn(input)

BodySpecInit ==
    BodyInit /\ FmtIdle /\ FieldsIdle /\ HeadIdle /\ StructIdle /\ ModuleIdle

SpecBody == BodySpecInit /\ [][BodyNext]_vars

\* Rendering node into an empty sink.
Rendered ==
    IF IsTrait THEN TraitFmt(node.item, FormatterNew(<<>>))
    ELSE ImplFmt(node.item, FormatterNew(<<>>))

FnsSaid == SelectSeq(hist, LAMBDA call : call.op = "fn")

TypesSaid == SelectSeq(hist, LAMBDA call : call.op = "type")

\* C14: rendering a trait fails on the visibility assertion exactly when
\* one of its functions has a visibility other than Private, whichever of
\* Pub, PubCrate and PubSuper it is and whether or not the function has a
\* body; it fails for no other reason.
C14_InvalidVisibility ==
    IsTrait =>
        /\ Rendered.panicked = "vis" <=>
             \E i \in DOMAIN FnsSaid : FnsSaid[i].vis # "Private"
        /\ Rendered.panicked \in {"no", "vis"}
        /\ \A i \in DOMAIN node.item.fns :
               FunctionFmt(node.item.fns[i], TRUE,
                           FormatterNew(<<>>)).panicked = "vis"
                 <=> FnsSaid[i].vis # "Private"

\* A trait whose second function is pub(super) and has a body.
C14_Witness ==
    /\ IsTrait
    /\ Len(FnsSaid) = 2
    /\ FnsSaid[1].vis = "Private"
    /\ FnsSaid[2] = [op |-> "fn", name |-> "given", vis |-> "PubSuper",
                     body |-> TRUE]
    /\ Rendered.panicked = "vis"


VisText(vis) ==
    CASE vis = "Private" -> ""
      [] vis = "Pub" -> "pub "
      [] vis = "PubCrate" -> "pub(crate) "
      [] vis = "PubSuper" -> "pub(super) "

\* C15: a function without a body renders as its signature and `;` in a
\* trait, and its rendering fails outside a trait: on its own with
\* is_trait false, and inside an impl block. A function with a body, an
\* empty one included, renders a block in a trait and outside one.
C15_MissingBody ==
    /\ \A i \in DOMAIN node.item.fns :
         LET fn == node.item.fns[i]
             said == FnsSaid[i]
             in_trait == FunctionFmt(fn, TRUE, FormatterNew(<<>>))
             outside == FunctionFmt(fn, FALSE, FormatterNew(<<>>))
         IN  /\ ~said.body => outside.panicked = "body"
             /\ said.body =>
                  /\ outside.panicked = "no"
                  /\ Str(outside.f.dst) =
                       VisText(said.vis) \o "fn " \o said.name \o "() {\n}\n"
             /\ said.vis = "Private" =>
                  /\ in_trait.panicked = "no"
                  /\ Str(in_trait.f.dst) =
                       "fn " \o said.name \o "()"
                       \o (IF said.body THEN " {\n}\n" ELSE ";\n")
    /\ ~IsTrait =>
         /\ Rendered.panicked = "body" <=>
              \E i \in DOMAIN FnsSaid : ~FnsSaid[i].body
         /\ Rendered.panicked \in {"no", "body"}

\* An impl block given a function made by new_fn and then one without a
\* body.
C15_Witness ==
    /\ ~IsTrait
    /\ Len(FnsSaid) = 2
    /\ FnsSaid[1].name = "made" /\ FnsSaid[1].body
    /\ FnsSaid[2].name = "given" /\ ~FnsSaid[2].body
    /\ Rendered.panicked = "body"


\* The lines of the members said, as they stand in the block.
TypeLineSaid(call) ==
    IF IsTrait THEN "    type " \o call.name \o ";\n"
    ELSE "    type " \o call.name \o " = T;\n"

FnLinesSaid(call) ==
    "    " \o VisText(call.vis) \o "fn " \o call.name \o "()"
    \o (IF call.body THEN " {\n    }\n" ELSE ";\n")

RECURSIVE StrConcat(_)
StrConcat(strs) ==
    IF strs = <<>> THEN "" ELSE Head(strs) \o StrConcat(Tail(strs))

HeaderSaid ==
    IF IsTrait THEN "trait Foo"
    ELSE IF node.item.impl_trait # <<>> THEN "impl Bar for Foo"
    ELSE "impl Foo"

\* C20: in the block of a trait or of an impl the associated types come
\* first, in insertion order and with no blank line between them, then the
\* functions in insertion order; a blank line stands ahead of the first
\* function exactly when an associated type was rendered, one blank line
\* stands between successive functions, and none after the last one.
C20_BodyLayout ==
    Rendered.panicked = "no" =>
        Str(Rendered.f.dst) =
          HeaderSaid \o " {\n"
          \o StrConcat([i \in DOMAIN TypesSaid |-> TypeLineSaid(TypesSaid[i])])
          \o (IF TypesSaid # <<>> /\ FnsSaid # <<>> THEN "\n" ELSE "")
          \o StrJoin([i \in DOMAIN FnsSaid |-> FnLinesSaid(FnsSaid[i])], "\n")
          \o "}\n"

\* A trait given a function, an associated type, then a second function.
C20_Witness ==
    /\ IsTrait
    /\ Len(hist) = 3
    /\ hist[1].op = "fn" /\ hist[2].op = "type" /\ hist[3].op = "fn"
    /\ Str(Rendered.f.dst) =
         "trait Foo {\n    type Out;\n\n    fn made();\n\n    fn given() {\n    }\n}\n"


----------------------------------------------------------------------------
(* The modules of a scope by name (module.rs over scope.rs): get_module,   *)
(* push_module, new_module, get_or_new_module. scope.rs is not among the   *)
(* sources; the operations follow the documentation of their passthroughs  *)
(* in module.rs and tests get_or_new_module and module_mut.                *)

\* The places of the modules named name among the items of scope.
ScopeModulesNamed(scope, name) ==
    {i \in DOMAIN scope.items :
        ItemKind(scope.items[i]) = "Module" /\ scope.items[i].name = name}

\* get_module / get_module_mut: the place of the first module named name,
\* <<>> for None.
ScopeGetModule(scope, name) ==
    IF ScopeModulesNamed(scope, name) = {} THEN <<>>
    ELSE <<CHOOSE i \in ScopeModulesNamed(scope, name) :
             \A j \in ScopeModulesNamed(scope, name) : i <= j>>

\* The result of a call that hands out a reference: the scope after the
\* call, the place of the module the reference points to (0 when it
\* points to the receiver of the call), and whether the call panicked.
\* push_module hands back its receiver.
ScopePushModule(scope, item) ==
    IF ScopeGetModule(scope, item.name) # <<>>
    THEN [scope |-> scope, ref |-> 0, panicked |-> TRUE]
    ELSE [scope |-> [scope EXCEPT !.items = Append(@, item)],
          ref |-> 0, panicked |-> FALSE]

\* new_module pushes a new module and hands out the last item.
ScopeNewModule(scope, name) ==
    LET r == ScopePushModule(scope, ModuleNew(name))
    IN  [r EXCEPT !.ref = IF r.panicked THEN 0 ELSE Len(r.scope.items)]

ScopeGetOrNewModule(scope, name) ==
    IF ScopeGetModule(scope, name) # <<>>
    THEN [scope |-> scope, ref |-> ScopeGetModule(scope, name)[1],
          panicked |-> FALSE]
    ELSE ScopeNewModule(scope, name)

\* The passthroughs of Module: the module after the call in place of the
\* scope.
ModuleOver(m, r) ==
    [m |-> [m EXCEPT !.scope = r.scope], ref |-> r.ref,
     panicked |-> r.panicked]

ModuleGetModule(m, name) == ScopeGetModule(m.scope, name)

\* push_module with no look at the names already there.
ModulePushModuleUnchecked(m, item) ==
    [m |-> [m EXCEPT !.scope.items = Append(@, item)], ref |-> 0,
     panicked |-> FALSE]

ModulePushModule(m, item) == ModuleOver(m, ScopePushModule(m.scope, item))

ModuleNewModule(m, name) == ModuleOver(m, ScopeNewModule(m.scope, name))

\* get_or_new_module that makes a new module every time.
ModuleGetOrNewModuleAnew(m, name) ==
    [m |-> [m EXCEPT !.scope.items = Append(@, ModuleNew(name))],
     ref |-> Len(m.scope.items) + 1, panicked |-> FALSE]

ModuleGetOrNewModule(m, name) ==
    ModuleOver(m, ScopeGetOrNewModule(m.scope, name))

----------------------------------------------------------------------------
(* A module and the items nested in it                                     *)

MaxTreeItems == 2
MaxWraps == 1

\* struct Foo of test struct_in_mod, with three named fields.
TreeStruct ==
    LET head == TypeDefPushBound(
                  TypeDefPushGeneric(
                    TypeDefDerive(
                      TypeDefPushDoc(TypeDefNew(<<"Foo">>),
                                     <<"Hello some docs">>),
                      <<"Debug">>),
                    TypeNew(<<"T">>)),
                  BoundNewWithBound(<<"T">>, TypeNew(<<"SomeBound">>)))
        s0 == [StructNew(<<"Foo">>) EXCEPT !.type_def = head]
        s1 == StructField(s0, <<"one">>, TypeNew(<<"T">>)).item
        s2 == StructField(s1, <<"two">>, TypeNew(<<"usize">>)).item
    IN  StructField(s2, <<"three">>, TypeNew(<<"T">>)).item

\* enum Kind { Unit, Named { x: T }, Tuple(T) }
TreeEnum ==
    EnumPushVariant(
      EnumPushVariant(
        EnumPushVariant(EnumNew(<<"Kind">>), VariantNew(<<"Unit">>)),
        VariantNamed(VariantNew(<<"Named">>), <<"x">>,
                     TypeNew(<<"T">>)).item),
      VariantTuple(VariantNew(<<"Tuple">>), TypeNew(<<"T">>)).item)

\* A function with &self, an argument, a return type and two lines.
TreeFunction ==
    FunctionLine(
      FunctionLine(
        FunctionRet(
          FunctionArg(FunctionArgRefSelf(FunctionNew(<<"run">>)),
                      <<"n">>, TypeNew(<<"usize">>)),
          TypeNew(<<"usize">>)),
        <<"let res = n + 1;">>),
      <<"res">>)

TreeTrait ==
    TraitPushFn(
      TraitNewFn(TraitAssociatedType(TraitNew(<<"Runs">>), <<"Out">>),
                 <<"made">>),
      TreeFunction)

TreeImpl ==
    ImplPushFn(
      ImplNewFn(
        ImplAssociateType(
          ImplImplTrait(ImplNew(TypeNew(<<"Foo">>)), TypeNew(<<"Runs">>)),
          <<"Out">>, TypeNew(<<"T">>)),
        <<"made">>),
      TreeFunction)

TreeItems ==
    [Struct |-> TreeStruct, Enum |-> TreeEnum, Function |-> TreeFunction,
     Trait |-> TreeTrait, Impl |-> TreeImpl]

\* node is a Module; hist lists the calls made: the items pushed into the
\* module, an import into it, and the module being pushed into a new one.
TreeInit ==
    /\ node = ModuleNew(<<"foo">>)
    /\ hist = <<>>

TreeCount(op) == Len(SelectSeq(hist, LAMBDA call : call = op))

\* push_struct, push_enum, push_fn, push_trait, push_impl.
TPushItem(kind) ==
    /\ Len(hist) - TreeCount("wrap") - TreeCount("import") < MaxTreeItems
    /\ node' = ModulePushItem(node, TreeItems[kind])
    /\ hist' = Append(hist, kind)
    /\ UNCHANGED <<fmtVars, fieldsVars, td, st, moduleVars>>

TImport ==
    /\ TreeCount("import") = 0
    /\ node' = ModuleImport(node, <<"bar">>, <<"Bar">>)
    /\ hist' = Append(hist, "import")
    /\ UNCHANGED <<fmtVars, fieldsVars, td, st, moduleVars>>

\* outer.push_module(node) on a new module outer.
TWrap ==
    /\ TreeCount("wrap") < MaxWraps
    /\ node' = ModulePushModule(ModuleNew(<<"outer">>), node).m
    /\ hist' = Append(hist, "wrap")
    /\ UNCHANGED <<fmtVars, fieldsVars, td, st, moduleVars>>

TreeNext ==
    \/ \E kind \in DOMAIN TreeItems : TPushItem(kind)
    \/ TImport
    \/ TWrap

TreeSpecInit ==
    TreeInit /\ FmtIdle /\ FieldsIdle /\ HeadIdle /\ StructIdle /\ ModuleIdle

SpecTree == TreeSpecInit /\ [][TreeNext]_vars

\* The characters of a string, one by one.
Chars(str) == [i \in 1..Len(str) |-> SubSeq(str, i, i)]

\* The lines of what Module::fmt writes for node into an empty sink, each
\* a sequence of characters.
TreeLines == Lines(Chars(Str(ModuleFmt(node, FormatterNew(<<>>)).f.dst)))

\* The number of spaces a line starts with.
RECURSIVE LeadingSpaces(_)
LeadingSpaces(line) ==
    IF line = <<>> \/ Head(line) # " " THEN 0
    ELSE 1 + LeadingSpaces(Tail(line))

\* From the i-th line on, with depth blocks open ahead of it: a line that
\* starts with `}` closes a block, a line that ends with `{` opens one, and
\* every line that is not empty starts with four spaces per block it is in.
RECURSIVE IndentedFrom(_, _, _)
IndentedFrom(lines, i, depth) ==
    IF i > Len(lines) THEN depth = 0
    ELSE IF lines[i] = <<>> THEN IndentedFrom(lines, i + 1, depth)
    ELSE LET line == lines[i]
             n == LeadingSpaces(line)
             closes == n < Len(line) /\ line[n + 1] = "}"
             inside == IF closes THEN depth - 1 ELSE depth
             opens == line[Len(line)] = "{"
         IN  /\ n = 4 * inside
             /\ IndentedFrom(lines, i + 1,
                             IF opens THEN inside + 1 ELSE inside)

\* The deepest a line of lines is, counted the same way.
RECURSIVE DeepestFrom(_, _, _)
DeepestFrom(lines, i, depth) ==
    IF i > Len(lines) THEN 0
    ELSE IF lines[i] = <<>> THEN DeepestFrom(lines, i + 1, depth)
    ELSE LET line == lines[i]
             n == LeadingSpaces(line)
             closes == n < Len(line) /\ line[n + 1] = "}"
             inside == IF closes THEN depth - 1 ELSE depth
             opens == line[Len(line)] = "{"
             rest == DeepestFrom(lines, i + 1,
                                 IF opens THEN inside + 1 ELSE inside)
         IN  IF rest > inside THEN rest ELSE inside

\* C12: every line that is not empty, rendered inside k nested blocks
\* (bodies of modules, blocks of named fields, bodies of enums, traits,
\* impl blocks and functions), starts with exactly 4 * k spaces.
C12_NestedIndentation == IndentedFrom(TreeLines, 1, 0)

\* mod foo holding struct Foo: the struct one step in, its three fields
\* one step further.
C12_Witness ==
    /\ hist = <<"Struct">>
    /\ DeepestFrom(TreeLines, 1, 0) = 2
    /\ ModuleFmt(node, FormatterNew(<<>>)).panicked = "no"
    /\ Str(ModuleFmt(node, FormatterNew(<<>>)).f.dst) =
         "mod foo {\n"
         \o "    /// Hello some docs\n"
         \o "    #[derive(Debug)]\n"
         \o "    struct Foo<T>\n"
         \o "    where\n"
         \o "    T:SomeBound,\n"
         \o "    {\n"
         \o "        one: T,\n"
         \o "        two: usize,\n"
         \o "        three: T,\n"
         \o "    }\n"
         \o "}\n"


----------------------------------------------------------------------------
(* Calls on the modules of a scope, and calls through the references they *)
(* hand out.                                                               *)

MaxModuleCalls == 4

ModNames == {<<"foo">>, <<"baz">>}

\* node is the enclosing module and the place of the module that the last
\* call handed out a reference to (0: the enclosing module itself); hist
\* lists the calls.
ModsInit ==
    /\ node = [m |-> ModuleNew(<<"root">>), ref |-> 0]
    /\ hist = <<>>

ModsAborted == hist # <<>> /\ hist[Len(hist)].panicked

ModsStep(op, name, r) ==
    /\ ~ModsAborted
    /\ Len(hist) < MaxModuleCalls
    /\ node' = [m |-> r.m, ref |-> r.ref]
    /\ hist' = Append(hist, [op |-> op, name |-> name, before |-> node.m,
                             after |-> r.m, ref |-> r.ref,
                             panicked |-> r.panicked])
    /\ UNCHANGED <<fmtVars, fieldsVars, td, st, moduleVars>>

NGetOrNewModule(name) ==
    ModsStep("get_or_new_module", name, ModuleGetOrNewModule(node.m, name))

NNewModule(name) == ModsStep("new_module", name, ModuleNewModule(node.m, name))

\* push_module of a module made elsewhere, holding a struct.
NPushModule(name) ==
    ModsStep("push_module", name,
             ModulePushModule(node.m,
                              ModuleNewStruct(ModuleNew(name), <<"Made">>)))

\* A struct among the items of the enclosing module.
NNewStruct ==
    ModsStep("new_struct", <<"root">>,
             [m |-> ModuleNewStruct(node.m, <<"Top">>), ref |-> 0,
              panicked |-> FALSE])

\* The module that the reference last handed out points to.
Referred == IF node.ref = 0 THEN node.m ELSE node.m.scope.items[node.ref]

\* The enclosing module with the module referred to replaced by made.
ThroughReference(made) ==
    [m |-> IF node.ref = 0 THEN made
           ELSE [node.m EXCEPT !.scope.items[node.ref] = made],
     ref |-> node.ref, panicked |-> FALSE]

\* import("bar", "Bar") through the reference last handed out.
NImportThrough ==
    ModsStep("import", Referred.name,
             ThroughReference(ModuleImport(Referred, <<"bar">>, <<"Bar">>)))

\* new_struct("Foo") through the reference last handed out.
NNewStructThrough ==
    ModsStep("struct", Referred.name,
             ThroughReference(ModuleNewStruct(Referred, <<"Foo">>)))

ModsNext ==
    \/ \E name \in ModNames : NGetOrNewModule(name)
    \/ \E name \in ModNames : NNewModule(name)
    \/ \E name \in ModNames : NPushModule(name)
    \/ NNewStruct
    \/ NImportThrough
    \/ NNewStructThrough

ModsSpecInit ==
    ModsInit /\ FmtIdle /\ FieldsIdle /\ HeadIdle /\ StructIdle /\ ModuleIdle

SpecMods == ModsSpecInit /\ [][ModsNext]_vars

\* Whether a module named name was made by one of the first k calls.
MadeBy(name, k) ==
    \E j \in 1..k :
        /\ hist[j].name = name /\ ~hist[j].panicked
        /\ hist[j].op \in {"get_or_new_module", "new_module", "push_module"}

\* How many of the calls said were op made through a reference to the
\* module named name.
ThroughSaid(name, op) ==
    Len(SelectSeq(hist, LAMBDA call : call.op = op /\ call.name = name))

\* C21: get_or_new_module hands out the module of that name when the scope
\* has one and leaves the scope as it is, and appends a new empty module
\* when it has none; the scope then holds one module per name asked for;
\* get_module is None ahead of the first call for a name and Some after
\* it; and what was done through one reference (imports, items) is there
\* through the next.
C21_GetOrNewModule ==
    /\ \A k \in DOMAIN hist :
         hist[k].op = "get_or_new_module" =>
           LET call == hist[k]
               was == ModuleGetModule(call.before, call.name)
           IN  /\ ~call.panicked
               /\ was # <<>> <=> MadeBy(call.name, k - 1)
               /\ was # <<>> =>
                    /\ call.after = call.before
                    /\ call.ref = was[1]
               /\ was = <<>> =>
                    /\ call.after.scope.items =
                         Append(call.before.scope.items, ModuleNew(call.name))
                    /\ call.ref = Len(call.after.scope.items)
               /\ ModuleGetModule(call.after, call.name) = <<call.ref>>
               /\ Cardinality(ScopeModulesNamed(call.after.scope,
                                                call.name)) = 1
    /\ \A name \in ModNames :
         LET at == ModuleGetModule(node.m, name)
         IN  /\ at # <<>> <=> MadeBy(name, Len(hist))
             /\ at # <<>> =>
                  /\ Len(node.m.scope.items[at[1]].scope.imports) =
                       (IF ThroughSaid(name, "import") > 0 THEN 1 ELSE 0)
                  /\ Len(node.m.scope.items[at[1]].scope.items) =
                       ThroughSaid(name, "struct")
                       + (IF \E j \in DOMAIN hist :
                               /\ hist[j].op = "push_module"
                               /\ hist[j].name = name /\ ~hist[j].panicked
                          THEN 1 ELSE 0)

\* Test get_or_new_module: an import through the first reference to foo, a
\* struct through the second.
C21_Witness ==
    /\ Len(hist) = 4
    /\ hist[1].op = "get_or_new_module" /\ hist[1].name = <<"foo">>
    /\ hist[2].op = "import"
    /\ hist[3].op = "get_or_new_module" /\ hist[3].name = <<"foo">>
    /\ hist[4].op = "struct"
    /\ Len(node.m.scope.items) = 1
    /\ ScopeToString(node.m.scope).panicked = "no"
    /\ Str(ScopeToString(node.m.scope).ret[1]) =
         "mod foo {\n    use bar::Bar;\n\n    struct Foo;\n}\n"

\* C22: new_module and push_module panic when the scope has a module of
\* that name and succeed when it has none, so that no scope holds two
\* modules of one name.
C22_UniqueModuleNames ==
    /\ \A k \in DOMAIN hist :
         hist[k].op \in {"new_module", "push_module"} =>
           LET call == hist[k]
           IN  /\ call.panicked <=>
                    ModuleGetModule(call.before, call.name) # <<>>
               /\ call.panicked => call.after = call.before
               /\ ~call.panicked =>
                    /\ Len(call.after.scope.items) =
                         Len(call.before.scope.items) + 1
                    /\ call.after.scope.items[Len(call.after.scope.items)]
                         .name = call.name
                    /\ call.ref = (IF call.op = "new_module"
                                   THEN Len(call.after.scope.items) ELSE 0)
    /\ \A name \in ModNames :
         Cardinality(ScopeModulesNamed(node.m.scope, name)) <= 1

\* A second module foo is refused after baz was pushed under a fresh name.
C22_Witness ==
    /\ Len(hist) = 3
    /\ hist[1].op = "new_module" /\ hist[1].name = <<"foo">>
    /\ hist[2].op = "push_module" /\ hist[2].name = <<"baz">>
    /\ ~hist[2].panicked
    /\ hist[3].op = "push_module" /\ hist[3].name = <<"foo">>
    /\ hist[3].panicked
    /\ Len(node.m.scope.items) = 2


----------------------------------------------------------------------------
(* bound_count, has_bounds and has_inner_bounds (bounds.rs), checked over  *)
(* the structs of SpecWhere.                                               *)

BoundBoundCount(bound) == Len(bound.bounds)

\* Bound::has_inner_bounds returns self.bounds.is_empty().
BoundHasInnerBounds(bound) == bound.bounds = <<>>

BoundsBoundCount(b) == Len(b.bounds)

\* Bounds::has_bounds returns self.bounds.is_empty().
BoundsHasBounds(b) == b.bounds = <<>>

\* The passthroughs of impl_bounds_methods! on TypeDef and on Struct.
TypeDefBoundCount(d) == BoundsBoundCount(d.bounds)

TypeDefHasBounds(d) == BoundsHasBounds(d.bounds)

StructBoundCount(s) == TypeDefBoundCount(s.type_def)

StructHasBounds(s) == TypeDefHasBounds(s.type_def)

\* C23: has_bounds and its passthroughs are true exactly when bound_count
\* is above zero, and has_inner_bounds of a bound is true exactly when the
\* bound has a required type; both are false on a new value and after
\* clear_bounds.
C23_HasBoundsWhenCounted ==
    /\ StructHasBounds(node) <=> StructBoundCount(node) > 0
    /\ BoundsHasBounds(node.type_def.bounds) <=>
         BoundsBoundCount(node.type_def.bounds) > 0
    /\ hist.bounds = <<>> => ~StructHasBounds(node)
    /\ \A i \in DOMAIN node.type_def.bounds.bounds :
         LET bound == node.type_def.bounds.bounds[i]
         IN  BoundHasInnerBounds(bound) <=> BoundBoundCount(bound) >= 1
    /\ ~BoundHasInnerBounds(BoundClearBounds(BoundNew(<<"T">>)))

\* What the code does: has_bounds and has_inner_bounds are true exactly
\* when nothing is held, the count zero.
C23_HasBoundsWhenEmpty ==
    /\ StructHasBounds(node) <=> StructBoundCount(node) = 0
    /\ StructBoundCount(node) = Len(hist.bounds)
    /\ \A i \in DOMAIN node.type_def.bounds.bounds :
         LET bound == node.type_def.bounds.bounds[i]
         IN  BoundHasInnerBounds(bound) <=> BoundBoundCount(bound) = 0


----------------------------------------------------------------------------
(* The parameter list of a function (function.rs: arg_self, arg_ref_self,  *)
(* arg_mut_self, arg, and the loop over args in Function::fmt).            *)

MaxParams == 3

FunctionArgSelf(fn) == [fn EXCEPT !.arg_self = <<<<"self">>>>]

FunctionArgMutSelf(fn) == [fn EXCEPT !.arg_self = <<<<"&mut self">>>>]

\* A parameter and the text the caller means by it.
ParamInputs ==
    {[name |-> <<"a">>, ty |-> TypeNew(<<"A">>), shown |-> "a: A"],
     [name |-> <<"b">>, ty |-> TypeNew(<<"B">>), shown |-> "b: B"],
     [name |-> <<"n">>, ty |-> TypeNew(<<"usize">>), shown |-> "n: usize"]}

\* node is a Function; hist holds the self token and the parameters said.
ParamsInit ==
    /\ node = FunctionNew(<<"run">>)
    /\ hist = [self |-> "", params |-> <<>>]

PArgSelf ==
    /\ node' = FunctionArgSelf(node)
    /\ hist' = [hist EXCEPT !.self = "self"]
    /\ UNCHANGED <<fmtVars, fieldsVars, td, st, moduleVars>>

PArgRefSelf ==
    /\ node' = FunctionArgRefSelf(node)
    /\ hist' = [hist EXCEPT !.self = "&self"]
    /\ UNCHANGED <<fmtVars, fieldsVars, td, st, moduleVars>>

PArgMutSelf ==
    /\ node' = FunctionArgMutSelf(node)
    /\ hist' = [hist EXCEPT !.self = "&mut self"]
    /\ UNCHANGED <<fmtVars, fieldsVars, td, st, moduleVars>>

PArg(param) ==
    /\ Len(hist.params) < MaxParams
    /\ node' = FunctionArg(node, param.name, param.ty)
    /\ hist' = [hist EXCEPT !.params = Append(@, param.shown)]
    /\ UNCHANGED <<fmtVars, fieldsVars, td, st, moduleVars>>

ParamsNext ==
    \/ PArgSelf
    \/ PArgRefSelf
    \/ PArgMutSelf
    \/ \E param \in ParamInputs : PArg(param)

ParamsSpecInit ==
    ParamsInit /\ FmtIdle /\ FieldsIdle /\ HeadIdle /\ StructIdle /\ ModuleIdle

SpecParams == ParamsSpecInit /\ [][ParamsNext]_vars

\* What Function::fmt writes for node into an empty sink.
FunctionToString == Str(FunctionFmt(node, FALSE, FormatterNew(<<>>)).f.dst)

\* A string less its spaces and newlines.
Squeezed(str) ==
    Str(SelectSeq(Chars(str), LAMBDA c : c \notin {" ", "\n"}))

\* The entries of the parameter list said: the self token, then the
\* parameters.
EntriesSaid ==
    (IF hist.self = "" THEN <<>> ELSE <<hist.self>>) \o hist.params

\* C24: between the parentheses stand the self token, when one is set, and
\* the parameters in the order they were added, with exactly one comma
\* between two adjacent entries (spaces and newlines aside, and a comma
\* after the last entry allowed).
C24_ParameterList ==
    LET list == StrJoin([i \in DOMAIN EntriesSaid |->
                           Squeezed(EntriesSaid[i])], ",")
    IN  Squeezed(FunctionToString) \in
          {"fnrun(" \o list \o "){}", "fnrun(" \o list \o ",){}"}

\* What the code does: `, ` ahead of every parameter but a first one with
\* no self token, and `,\n` after every parameter.
C24_CommaOnBothSides ==
    FunctionToString =
      "fn run(" \o hist.self
      \o StrConcat([i \in DOMAIN hist.params |->
                      (IF i # 1 \/ hist.self # "" THEN ", " ELSE "")
                      \o hist.params[i] \o ",\n"])
      \o ") {\n}\n"

\* Two parameters after &self.
C24_Witness ==
    /\ hist = [self |-> "&self", params |-> <<"a: A", "n: usize">>]
    /\ FunctionToString = "fn run(&self, a: A,\n, n: usize,\n) {\n}\n"


----------------------------------------------------------------------------
(* The body of an enum (enum_gen.rs, variant.rs).                          *)

MaxEnumCalls == 5

EnumNewVariant(e, name) == EnumPushVariant(e, VariantNew(name))

VariantPushDoc(v, text) == [v EXCEPT !.docs = DocsPushDoc(@, text)]

VariantPushAttr(v, attr) == PushAttr(v, attr)

\* The names of the variants, by their place.
VariantNames ==
    [i \in 1..(MaxEnumCalls + 1) |->
       IF i % 2 = 1 THEN [given |-> <<"VariantA">>, shown |-> "VariantA"]
       ELSE [given |-> <<"VariantB">>, shown |-> "VariantB"]]

\* node is an Enum; hist holds what was said of each variant, and calls
\* counts the calls made.
EnumInit ==
    /\ node = EnumNew(<<"AnEnum">>)
    /\ hist = [variants |-> <<>>, calls |-> 0]

EnumRoom == hist.calls < MaxEnumCalls

\* The variant that new_variant handed out last.
LastVariant == Len(node.variants)

ENewVariant ==
    /\ EnumRoom
    /\ node' = EnumNewVariant(node, VariantNames[LastVariant + 1].given)
    /\ hist' = [variants |->
                  Append(hist.variants,
                         [name |-> VariantNames[LastVariant + 1].shown,
                          docs |-> <<>>, attrs |-> <<>>, shape |-> "Empty",
                          elems |-> <<>>]),
                calls |-> hist.calls + 1]
    /\ UNCHANGED <<fmtVars, fieldsVars, td, st, moduleVars>>

EPushDoc ==
    /\ EnumRoom /\ LastVariant > 0
    /\ node' = [node EXCEPT !.variants[LastVariant] =
                  VariantPushDoc(@, <<"Variant docs">>)]
    /\ hist' = [hist EXCEPT !.variants[LastVariant].docs =
                  Append(@, "Variant docs"),
                !.calls = @ + 1]
    /\ UNCHANGED <<fmtVars, fieldsVars, td, st, moduleVars>>

EPushAttr ==
    /\ EnumRoom /\ LastVariant > 0
    /\ node' = [node EXCEPT !.variants[LastVariant] =
                  VariantPushAttr(@, <<"#[", "serde(skip_serializing)", "]">>)]
    /\ hist' = [hist EXCEPT !.variants[LastVariant].attrs =
                  Append(@, "#[serde(skip_serializing)]"),
                !.calls = @ + 1]
    /\ UNCHANGED <<fmtVars, fieldsVars, td, st, moduleVars>>

EClearAttrs ==
    /\ EnumRoom /\ LastVariant > 0
    /\ node' = [node EXCEPT !.variants[LastVariant] = ClearAttrs(@)]
    /\ hist' = [hist EXCEPT !.variants[LastVariant].attrs = <<>>,
                !.calls = @ + 1]
    /\ UNCHANGED <<fmtVars, fieldsVars, td, st, moduleVars>>

\* set_attrs(["inline"]) on the last variant.
ESetAttrs ==
    /\ EnumRoom /\ LastVariant > 0
    /\ node' = [node EXCEPT !.variants[LastVariant] =
                  SetAttrs(@, <<<<"inline">>>>)]
    /\ hist' = [hist EXCEPT !.variants[LastVariant].attrs = <<"#[inline]">>,
                !.calls = @ + 1]
    /\ UNCHANGED <<fmtVars, fieldsVars, td, st, moduleVars>>

\* named("inner", "T") on a variant that is not a tuple (the call panics
\* on one).
ENamed ==
    /\ EnumRoom /\ LastVariant > 0
    /\ node.variants[LastVariant].fields.tag # "Tuple"
    /\ node' = [node EXCEPT !.variants[LastVariant] =
                  VariantNamed(@, <<"inner">>, TypeNew(<<"T">>)).item]
    /\ hist' = [hist EXCEPT !.variants[LastVariant].shape = "Named",
                !.variants[LastVariant].elems = Append(@, "inner: T"),
                !.calls = @ + 1]
    /\ UNCHANGED <<fmtVars, fieldsVars, td, st, moduleVars>>

\* tuple("Option<T>") on a variant with no named field (the call panics on
\* one).
ETuple ==
    /\ EnumRoom /\ LastVariant > 0
    /\ node.variants[LastVariant].fields.tag # "Named"
    /\ node' = [node EXCEPT !.variants[LastVariant] =
                  VariantTuple(@, TypeNew(<<"Option<T>">>)).item]
    /\ hist' = [hist EXCEPT !.variants[LastVariant].shape = "Tuple",
                !.variants[LastVariant].elems = Append(@, "Option<T>"),
                !.calls = @ + 1]
    /\ UNCHANGED <<fmtVars, fieldsVars, td, st, moduleVars>>

EnumNext ==
    \/ ENewVariant
    \/ EPushDoc
    \/ EPushAttr
    \/ EClearAttrs
    \/ ESetAttrs
    \/ ENamed
    \/ ETuple

EnumSpecInit ==
    EnumInit /\ FmtIdle /\ FieldsIdle /\ HeadIdle /\ StructIdle /\ ModuleIdle

SpecEnum == EnumSpecInit /\ [][EnumNext]_vars

\* What Enum::fmt writes for node into an empty sink.
EnumToString == Str(EnumFmt(node, FormatterNew(<<>>)).f.dst)

\* The shape of a variant as said: nothing, a list in parentheses, a block
\* of its own.
ShapeSaid(v) ==
    CASE v.shape = "Tuple" -> "(" \o StrJoin(v.elems, ", ") \o ")"
      [] v.shape = "Named" ->
           " {\n"
           \o StrConcat([i \in DOMAIN v.elems |->
                           "        " \o v.elems[i] \o ",\n"])
           \o "    }\n    "
      [] OTHER -> ""

\* A variant as said: documentation lines, attribute lines, name, shape,
\* a comma and a newline.
VariantSaid(v) ==
    StrConcat([i \in DOMAIN v.docs |-> "    /// " \o v.docs[i] \o "\n"])
    \o StrConcat([i \in DOMAIN v.attrs |-> "    " \o v.attrs[i] \o "\n"])
    \o "    " \o v.name \o ShapeSaid(v) \o ",\n"

\* C25: an enum renders its header and one block that holds every variant
\* in the order of the calls; a variant is its documentation lines, its
\* attribute lines, its name, its shape (nothing, a list in parentheses, a
\* nested block) and then a comma and a newline; with no variant the block
\* is empty.
C25_EnumBody ==
    EnumToString =
      "enum AnEnum {\n"
      \o StrConcat([i \in DOMAIN hist.variants |->
                      VariantSaid(hist.variants[i])])
      \o "}\n"

\* A documented variant with a named field, then a tuple variant.
C25_Witness ==
    /\ Len(hist.variants) = 2
    /\ hist.variants[1].docs # <<>> /\ hist.variants[1].shape = "Named"
    /\ hist.variants[2].shape = "Tuple"
    /\ EnumToString =
         "enum AnEnum {\n    /// Variant docs\n    VariantA {\n"
         \o "        inner: T,\n    }\n    ,\n    VariantB(Option<T>),\n}\n"


----------------------------------------------------------------------------
(* The body of a function (function.rs: new_trait_fn, new, line,           *)
(* push_block, and the match on the body in Function::fmt).                *)

MaxBodyEntries == 3

FunctionSetAsync(fn, is_async) == [fn EXCEPT !.is_async = is_async]

\* An entry of a body and the text it is rendered as inside the block of
\* the function.
EntryInputs ==
    {[given |-> BodyString(<<"let x = 1;">>), shown |-> "    let x = 1;\n"],
     [given |-> BodyString(<<"x">>), shown |-> "    x\n"],
     [given |-> BodyBlock(BlockNew(<<"loop">>)),
      shown |-> "    loop {\n    }\n"]}

\* node is a Function; hist tells how it was made (for a trait, with no
\* body, or not) and the entries pushed.
FnBodyInit ==
    /\ \/ /\ node = FunctionNewTraitFn(<<"pet_toby">>)
          /\ hist = [is_trait |-> TRUE, entries |-> <<>>]
       \/ /\ node = FunctionNew(<<"pet_toby">>)
          /\ hist = [is_trait |-> FALSE, entries |-> <<>>]

KLine(entry) ==
    /\ entry.given.tag = "String"
    /\ Len(hist.entries) < MaxBodyEntries
    /\ node' = FunctionLine(node, entry.given.text)
    /\ hist' = [hist EXCEPT !.entries = Append(@, entry.shown)]
    /\ UNCHANGED <<fmtVars, fieldsVars, td, st, moduleVars>>

KPushBlock(entry) ==
    /\ entry.given.tag = "Block"
    /\ Len(hist.entries) < MaxBodyEntries
    /\ node' = FunctionPushBlock(node, entry.given.block)
    /\ hist' = [hist EXCEPT !.entries = Append(@, entry.shown)]
    /\ UNCHANGED <<fmtVars, fieldsVars, td, st, moduleVars>>

KSetAsync(is_async) ==
    /\ node' = FunctionSetAsync(node, is_async)
    /\ UNCHANGED <<hist, fmtVars, fieldsVars, td, st, moduleVars>>

KRet ==
    /\ node' = FunctionRet(node, TypeNew(<<"T">>))
    /\ UNCHANGED <<hist, fmtVars, fieldsVars, td, st, moduleVars>>

KArgRefSelf ==
    /\ node' = FunctionArgRefSelf(node)
    /\ UNCHANGED <<hist, fmtVars, fieldsVars, td, st, moduleVars>>

KAllow ==
    /\ node' = FunctionAllow(node, <<"dead_code">>)
    /\ UNCHANGED <<hist, fmtVars, fieldsVars, td, st, moduleVars>>

KExternAbi ==
    /\ node' = FunctionExternAbi(node, <<"C">>)
    /\ UNCHANGED <<hist, fmtVars, fieldsVars, td, st, moduleVars>>

FnBodyNext ==
    \/ \E entry \in EntryInputs : KLine(entry)
    \/ \E entry \in EntryInputs : KPushBlock(entry)
    \/ \E is_async \in BOOLEAN : KSetAsync(is_async)
    \/ KRet
    \/ KArgRefSelf
    \/ KAllow
    \/ KExternAbi

FnBodySpecInit ==
    FnBodyInit /\ FmtIdle /\ FieldsIdle /\ HeadIdle /\ StructIdle /\ ModuleIdle

SpecFnBody == FnBodySpecInit /\ [][FnBodyNext]_vars

\* The signature of node as the calls made it.
SignatureSaid ==
    (IF node.allow # <<>> THEN "#[allow(dead_code)]\n" ELSE "")
    \o (IF node.extern_abi # <<>> THEN "extern \"C\" " ELSE "")
    \o (IF node.is_async THEN "async " ELSE "") \o "fn pet_toby("
    \o (IF node.arg_self # <<>> THEN "&self" ELSE "") \o ")"
    \o (IF node.ret # <<>> THEN " -> T" ELSE "")

\* Whether node has a body by what was said: made by Function::new, or
\* line or push_block called.
BodySaid == ~hist.is_trait \/ hist.entries # <<>>

\* C26: a function made by new_trait_fn has no body and one made by
\* Function::new has an empty one; the first line or push_block on a
\* function with no body gives it a body of that entry; no call takes a
\* body away or takes an entry out of it; the entries render inside the
\* block in the order they were added; and a trait function renders `;`
\* exactly when it was made with no body and line and push_block were
\* never called on it.
C26_BodyOneWay ==
    /\ [](/\ node.body # <<>> <=> BodySaid
          /\ node.body # <<>> => Len(node.body[1]) = Len(hist.entries)
          /\ LET shown == FunctionFmt(node, TRUE, FormatterNew(<<>>))
             IN  /\ shown.panicked = "no"
                 /\ Str(shown.f.dst) =
                      SignatureSaid
                      \o (IF BodySaid
                          THEN " {\n" \o StrConcat(hist.entries) \o "}\n"
                          ELSE ";\n"))
    /\ [][/\ node.body # <<>> => node'.body # <<>>
          /\ node.body # <<>> =>
               SubSeq(node'.body[1], 1, Len(node.body[1])) = node.body[1]
          /\ node.body = <<>> /\ node'.body # <<>> =>
               /\ Len(node'.body[1]) = 1
               /\ hist'.entries # hist.entries]_vars

\* Test function_with_async: a trait function made with no body, set
\* async, given a line and then a block.
C26_Witness ==
    /\ hist = [is_trait |-> TRUE,
               entries |-> <<"    x\n", "    loop {\n    }\n">>]
    /\ node.is_async
    /\ Str(FunctionFmt(node, TRUE, FormatterNew(<<>>)).f.dst) =
         "async fn pet_toby() {\n    x\n    loop {\n    }\n}\n"


----------------------------------------------------------------------------
(* The entries of a documentation container (docs.rs: push_doc, set_doc,   *)
(* clear_docs, doc_line_count, fmt_docs).                                  *)

MaxDocEntries == 4

DocsClearDocs(docs) == [docs EXCEPT !.lines = <<>>]

DocsDocLineCount(docs) == Len(docs.lines)

DocsSetDoc(docs, text) == DocsPushDoc(DocsClearDocs(docs), text)

\* A text handed to push_doc or set_doc, and its lines as the caller reads
\* them.
DocTexts ==
    {[given |-> <<>>, shown |-> <<>>],
     [given |-> <<"one">>, shown |-> <<"one">>],
     [given |-> <<"one", NL>>, shown |-> <<"one">>],
     [given |-> <<"one", NL, "two">>, shown |-> <<"one", "two">>],
     [given |-> <<"one", NL, NL, "two">>, shown |-> <<"one", "", "two">>],
     [given |-> <<NL>>, shown |-> <<"">>],
     [given |-> <<"one", "\r", NL, "two">>, shown |-> <<"one", "two">>],
     [given |-> <<"/// two">>, shown |-> <<"/// two">>]}

\* node is a Docs; hist lists the entries it is to hold.
DocLinesInit ==
    /\ node = DocsEmpty
    /\ hist = <<>>

LPushDoc(text) ==
    /\ Len(hist) + Len(text.shown) <= MaxDocEntries
    /\ node' = DocsPushDoc(node, text.given)
    /\ hist' = hist \o text.shown
    /\ UNCHANGED <<fmtVars, fieldsVars, td, st, moduleVars>>

LSetDoc(text) ==
    /\ node' = DocsSetDoc(node, text.given)
    /\ hist' = text.shown
    /\ UNCHANGED <<fmtVars, fieldsVars, td, st, moduleVars>>

LClearDocs ==
    /\ hist # <<>>
    /\ node' = DocsClearDocs(node)
    /\ hist' = <<>>
    /\ UNCHANGED <<fmtVars, fieldsVars, td, st, moduleVars>>

DocLinesNext ==
    \/ \E text \in DocTexts : LPushDoc(text)
    \/ \E text \in DocTexts : LSetDoc(text)
    \/ LClearDocs

DocLinesSpecInit ==
    DocLinesInit /\ FmtIdle /\ FieldsIdle /\ HeadIdle /\ StructIdle
    /\ ModuleIdle

SpecDocLines == DocLinesSpecInit /\ [][DocLinesNext]_vars

\* C27: push_doc appends one entry per line of its text and nothing for an
\* empty text, set_doc leaves the lines of its text and no other,
\* clear_docs leaves none, and doc_line_count is the number of entries;
\* fmt_docs writes every entry as one line that starts with the
\* indentation in force and `/// `, in the order of the entries.
C27_DocEntries ==
    /\ DocsDocLineCount(node) = Len(hist)
    /\ \A i \in DOMAIN hist : Str(node.lines[i]) = hist[i]
    /\ Str(DocsFmt(FormatterNew(<<>>), node).dst) =
         StrConcat([i \in DOMAIN hist |-> "/// " \o hist[i] \o "\n"])
    /\ Str(DocsFmt(IndentEnter(FormatterNew(<<>>)), node).dst) =
         StrConcat([i \in DOMAIN hist |-> "    /// " \o hist[i] \o "\n"])

\* Test struct_doc: two lines pushed as one text, and then a third.
C27_Witness ==
    /\ hist = <<"one", "two", "one">>
    /\ Str(DocsFmt(FormatterNew(<<>>), node).dst) =
         "/// one\n/// two\n/// one\n"


----------------------------------------------------------------------------
(* The assertions of Fields::fmt (fields.rs), checked over the values of   *)
(* SpecFields.                                                             *)

\* C28: whatever pushes were made, returned or failed, a Tuple holds at
\* least one type and a Named at least one field, and only an Empty value
\* holds nothing; the assertions of Fields::fmt hold.
C28_CommittedNeverEmpty ==
    /\ fields.tag \in {"Empty", "Tuple", "Named"}
    /\ fields.tag = "Tuple" => Len(fields.elems) >= 1
    /\ fields.tag = "Named" => Len(fields.elems) >= 1
    /\ fields.tag = "Empty" <=> fields.elems = <<>>
    /\ FieldsFmtAsserted(fields)
    /\ FieldsFmt(FormatterNew(<<>>), fields).panicked = "no"

\* tuple on an Empty value has just committed it to a Tuple of one type,
\* which renders.
C28_Witness ==
    /\ flast.op = "tuple" /\ flast.before = FieldsEmpty /\ ~flast.panicked
    /\ fields.tag = "Tuple" /\ Len(fields.elems) = 1
    /\ Str(FieldsFmt(FormatterNew(<<>>), fields).f.dst) \in {"(T)", "(usize)"}


----------------------------------------------------------------------------
(* The balance of the indentation (formatter.rs: new, block, indent),      *)
(* checked over the runs of SpecFmt.                                       *)

\* C29: at every point the indentation is four spaces for every indent or
\* block call whose body is running, bodies that failed included; it is
\* never below zero; and with every call returned it is zero again, as in
\* the new Formatter.
C29_IndentationBalanced ==
    /\ fmt.spaces = DEFAULT_INDENT * Len(scopes)
    /\ fmt.spaces >= 0
    /\ fmt.indent = DEFAULT_INDENT
    /\ scopes = <<>> => fmt.spaces = FormatterNew(<<>>).spaces
    /\ last.op = "exit" => last.before.spaces >= last.before.indent

\* The outer of two nested calls, an indent inside a block, has returned
\* to the top after its body failed.
C29_Witness ==
    /\ scopes = <<>> /\ last.op = "exit" /\ ~last.ok
    /\ budget.enters = 2
    /\ last.before.spaces = DEFAULT_INDENT /\ fmt.spaces = 0


----------------------------------------------------------------------------
(* The end of every rendered item (struct_gen.rs, enum_gen.rs,             *)
(* trait_gen.rs, impl_gen.rs, function.rs, module.rs).                     *)

MaxSections == 3

HeadOps == {"doc", "derive", "vis", "generic", "bound"}

\* A call on the header of a Struct, an Enum or a Trait.
HeadApplied(d, op) ==
    CASE op = "doc" -> TypeDefPushDoc(d, <<"Some docs">>)
      [] op = "derive" -> TypeDefDerive(d, <<"Debug">>)
      [] op = "vis" -> TypeDefSetVis(d, "Pub")
      [] op = "generic" -> TypeDefPushGeneric(d, TypeNew(<<"T">>))
      [] OTHER -> TypeDefPushBound(d, BoundNewWithBound(<<"T">>,
                                                        TypeNew(<<"Clone">>)))

\* The variants handed to push_variant, one of each shape.
VariantGiven(shape) ==
    CASE shape = "Tuple" ->
           VariantTuple(VariantNew(<<"B">>), TypeNew(<<"T">>)).item
      [] shape = "Named" ->
           VariantNamed(VariantNew(<<"C">>), <<"x">>, TypeNew(<<"T">>)).item
      [] OTHER -> VariantNew(<<"A">>)

\* The functions handed to push_fn: with a body, without one, public.
MemberFn(member) ==
    CASE member = "fn" -> FunctionNew(<<"made">>)
      [] member = "trait_fn" -> FunctionNewTraitFn(<<"given">>)
      [] OTHER -> FunctionSetVis(FunctionNew(<<"open">>), "Pub")

\* A call on a Function.
FnPartApplied(fn, part) ==
    CASE part = "line" -> FunctionLine(fn, <<"x">>)
      [] part = "block" -> FunctionPushBlock(fn, BlockNew(<<"loop">>))
      [] part = "ret" -> FunctionRet(fn, TypeNew(<<"T">>))
      [] part = "arg" -> FunctionArg(fn, <<"n">>, TypeNew(<<"usize">>))
      [] part = "self" -> FunctionArgRefSelf(fn)
      [] part = "async" -> FunctionSetAsync(fn, TRUE)
      [] part = "allow" -> FunctionAllow(fn, <<"dead_code">>)
      [] part = "extern" -> FunctionExternAbi(fn, <<"C">>)
      [] OTHER -> FunctionSetVis(fn, "Pub")

\* node is an item; hist tells its kind, whether it is rendered as the
\* function of a trait, and the number of calls made on it.
ItemsInit ==
    \E start \in {[kind |-> "Struct", item |-> StructNew(<<"Foo">>)],
                  [kind |-> "Enum", item |-> EnumNew(<<"Foo">>)],
                  [kind |-> "Trait", item |-> TraitNew(<<"Foo">>)],
                  [kind |-> "Impl", item |-> ImplNew(TypeNew(<<"Foo">>))],
                  [kind |-> "Function", item |-> FunctionNew(<<"run">>)],
                  [kind |-> "TraitFn",
                   item |-> FunctionNewTraitFn(<<"run">>)],
                  [kind |-> "Module", item |-> ModuleNew(<<"foo">>)]} :
        /\ node = start.item
        /\ hist = [kind |-> start.kind, calls |-> 0]

ItemsStep(item) ==
    /\ hist.calls < MaxSections
    /\ node' = item
    /\ hist' = [hist EXCEPT !.calls = @ + 1]
    /\ UNCHANGED <<fmtVars, fieldsVars, td, st, moduleVars>>

IHead(op) ==
    /\ hist.kind \in {"Struct", "Enum", "Trait"}
    /\ ItemsStep([node EXCEPT !.type_def = HeadApplied(@, op)])

\* field, push_field of a field with no name, or tuple_field, on a struct
\* that does not refuse it.
IField(how) ==
    /\ hist.kind = "Struct"
    /\ node.fields.tag # (IF how = "tuple" THEN "Named" ELSE "Tuple")
    /\ ItemsStep(CASE how = "named" ->
                        StructField(node, <<"one">>, TypeNew(<<"T">>)).item
                   [] how = "nameless" ->
                        StructPushField(node,
                          FieldNewUnnamed(TypeNew(<<"T">>))).item
                   [] OTHER -> StructTupleField(node, TypeNew(<<"T">>)).item)

IVariant(shape) ==
    /\ hist.kind = "Enum"
    /\ ItemsStep(EnumPushVariant(node, VariantGiven(shape)))

IMember(member) ==
    \/ /\ hist.kind = "Trait"
       /\ ItemsStep(IF member = "assoc"
                    THEN TraitAssociatedType(node, <<"Out">>)
                    ELSE TraitPushFn(node, MemberFn(member)))
    \/ /\ hist.kind = "Impl"
       /\ ItemsStep(CASE member = "assoc" ->
                           ImplAssociateType(node, <<"Out">>,
                                             TypeNew(<<"T">>))
                      [] member = "trait_fn" ->
                           ImplImplTrait(node, TypeNew(<<"Bar">>))
                      [] OTHER -> ImplPushFn(node, MemberFn(member)))

\* push_attr, clear_attrs and set_attrs, on the header of a struct, an enum
\* or a trait, or on a function, an impl block or a module.
AttrsApplied(item, op) ==
    CASE op = "push_attr" -> PushAttr(item, <<"cfg(test)">>)
      [] op = "clear_attrs" -> ClearAttrs(item)
      [] OTHER -> SetAttrs(item, <<<<"inline">>>>)

IAttrs(op) ==
    ItemsStep(IF hist.kind \in {"Struct", "Enum", "Trait"}
              THEN [node EXCEPT !.type_def = AttrsApplied(@, op)]
              ELSE AttrsApplied(node, op))

IFnPart(part) ==
    /\ hist.kind \in {"Function", "TraitFn"}
    /\ ItemsStep(FnPartApplied(node, part))

\* The traits and impl blocks handed to push_trait and push_impl: with
\* nothing in them, or with one function of MemberFn.
TraitGiven(member) ==
    IF member = "none" THEN TraitNew(<<"Shown">>)
    ELSE TraitPushFn(TraitNew(<<"Shown">>), MemberFn(member))

ImplGiven(member) ==
    IF member = "none" THEN ImplNew(TypeNew(<<"Foo">>))
    ELSE ImplPushFn(ImplNew(TypeNew(<<"Foo">>)), MemberFn(member))

\* import, new_struct, new_module, push_enum, push_fn, push_trait and
\* push_impl on a module; the function, the trait and the impl block are
\* each also given in a form whose rendering panics (a function with no
\* body outside a trait, a public function in a trait).
IModulePart(part, member) ==
    /\ hist.kind = "Module"
    /\ part \in {"import", "struct", "module", "enum"} => member = "none"
    /\ part = "fn" => member # "none"
    /\ ItemsStep(CASE part = "import" ->
                        ModuleImport(node, <<"bar">>, <<"Bar">>)
                   [] part = "struct" -> ModuleNewStruct(node, <<"Foo">>)
                   [] part = "enum" ->
                        ModulePushItem(node,
                          EnumPushVariant(EnumNew(<<"Kind">>),
                                          VariantGiven("Empty")))
                   [] part = "fn" -> ModulePushItem(node, MemberFn(member))
                   [] part = "trait" ->
                        ModulePushItem(node, TraitGiven(member))
                   [] part = "impl" ->
                        ModulePushItem(node, ImplGiven(member))
                   [] OTHER -> ModuleNewModule(node, <<"inner">>).m)

\* The item is pushed into a new module: a module by push_module, any
\* other item by the push of its kind.
IWrap ==
    /\ hist.calls < MaxSections
    /\ node' = IF hist.kind = "Module"
               THEN ModulePushModule(ModuleNew(<<"outer">>), node).m
               ELSE ModulePushItem(ModuleNew(<<"outer">>), node)
    /\ hist' = [kind |-> "Module", calls |-> hist.calls + 1]
    /\ UNCHANGED <<fmtVars, fieldsVars, td, st, moduleVars>>

ItemsNext ==
    \/ \E op \in HeadOps : IHead(op)
    \/ \E op \in {"push_attr", "clear_attrs", "set_attrs"} : IAttrs(op)
    \/ \E how \in {"named", "nameless", "tuple"} : IField(how)
    \/ \E shape \in {"Empty", "Tuple", "Named"} : IVariant(shape)
    \/ \E member \in {"assoc", "fn", "trait_fn", "pub_fn"} : IMember(member)
    \/ \E part \in {"line", "block", "ret", "arg", "self", "async", "allow",
                     "extern", "vis"} :
         IFnPart(part)
    \/ \E part \in {"import", "struct", "module", "enum", "fn", "trait",
                     "impl"},
          member \in {"none", "fn", "trait_fn", "pub_fn"} :
         IModulePart(part, member)
    \/ IWrap

ItemsSpecInit ==
    ItemsInit /\ FmtIdle /\ FieldsIdle /\ HeadIdle /\ StructIdle /\ ModuleIdle

SpecItems == ItemsSpecInit /\ [][ItemsNext]_vars

\* What the renderer of node's kind makes of f, and whether it panicked; a
\* function made for a trait is rendered as one.
ItemRendered(f) ==
    CASE hist.kind = "Trait" -> TraitFmt(node, f)
      [] hist.kind = "Impl" -> ImplFmt(node, f)
      [] hist.kind = "Function" -> FunctionFmt(node, FALSE, f)
      [] hist.kind = "TraitFn" -> FunctionFmt(node, TRUE, f)
      [] hist.kind = "Struct" -> StructFmt(node, f)
      [] hist.kind = "Enum" -> EnumFmt(node, f)
      [] OTHER -> ModuleFmt(node, f)

\* C30: a rendering that returns, of a struct, an enum, a trait, an impl
\* block, a function or a module, into an empty sink or inside an indent
\* scope, has written something and leaves the sink at the start of a
\* line: the last character written is a newline.
C30_ItemEndsItsLine ==
    \A f \in {FormatterNew(<<>>), IndentEnter(FormatterNew(<<>>))} :
        LET shown == ItemRendered(f)
            text == Str(shown.f.dst)
        IN  shown.panicked = "no" =>
              /\ is_start_of_line(shown.f)
              /\ Len(text) > 0
              /\ SubSeq(text, Len(text), Len(text)) = "\n"

\* A module that holds a trait with a function and a function with a
\* body: rendered inside an indent scope it returns, and every item, the
\* module included, has ended its line.
C30_Witness ==
    /\ hist = [kind |-> "Module", calls |-> 2]
    /\ ItemRendered(IndentEnter(FormatterNew(<<>>))).panicked = "no"
    /\ Str(ItemRendered(IndentEnter(FormatterNew(<<>>))).f.dst) =
         "    mod foo {\n"
         \o "        trait Shown {\n"
         \o "            fn given();\n"
         \o "        }\n"
         \o "\n"
         \o "        fn made() {\n"
         \o "        }\n"
         \o "    }\n"

====
